---------------------------- MODULE Spec2Model ----------------------------
(***************************************************************************)
(* A model of rofuse: the FUSE request loop (Server.Serve), the dispatch   *)
(* of one request by a worker goroutine (Server.handleRequest and the      *)
(* handlers table), response framing, the serialized device write, and     *)
(* the shutdown path (Server.Unmount, connection.close, Server.Wait).      *)
(***************************************************************************)
EXTENDS Integers, Sequences, FiniteSets, Bags, TLC

(***************************************************************************)
(* Bounds of the model.                                                    *)
(***************************************************************************)
\* Requests the kernel delivers during one run of the server.
MaxReqs == 2
\* Requests the kernel delivers in the runs that range over every opcode.
MaxDispatch == 1
\* INIT requests the kernel sends in a run of the negotiation.
MaxInits == 2
\* Directory reads and batch forgets the kernel sends in a decoding run.
MaxDecode == 1
\* Buffers allocated during one run of a buffer pool.
MaxBufs == 3
\* Requests the kernel delivers in a run that follows the buffers.
MaxBufReqs == 2
\* Worker processes that connect to the coordinator.
MaxWorkers == 2
\* Largest count passed to CloneMultiple.
MaxClones == 2
\* Requests the kernel delivers in a run under fair scheduling.
MaxLive == 2

(***************************************************************************)
(* Wire sizes (proto/types.go, proto/init.go).                             *)
(***************************************************************************)
InHeaderSize == 40
OutHeaderSize == 16
EntryOutSize == 128
AttrOutSize == 104
GetAttrInSize == 16
OpenInSize == 8
OpenOutSize == 16
ReadInSize == 40
ReleaseInSize == 24
ForgetInSize == 8
BatchForgetInSize == 8
ForgetOneSize == 16
AccessInSize == 8
DirentSize == 24
DirentPlusSize == EntryOutSize + DirentSize
InitInSize == 64
InitOutSize == 64
StatfsOutSize == 64

FuseKernelVersion == 7
FuseKernelMinorVersion == 41
MinSupportedMinor == 26

(***************************************************************************)
(* Opcodes (proto opcode table).                                           *)
(***************************************************************************)
OpLookup == 1
OpForget == 2
OpGetattr == 3
OpSetattr == 4
OpReadlink == 5
OpSymlink == 6
OpMknod == 8
OpMkdir == 9
OpUnlink == 10
OpRmdir == 11
OpRename == 12
OpLink == 13
OpOpen == 14
OpRead == 15
OpWrite == 16
OpStatfs == 17
OpRelease == 18
OpFsync == 20
OpSetxattr == 21
OpGetxattr == 22
OpRemovexattr == 24
OpFlush == 25
OpInit == 26
OpOpendir == 27
OpReaddir == 28
OpReleasedir == 29
OpAccess == 34
OpCreate == 35
OpInterrupt == 36
OpDestroy == 38
OpBatchForget == 42
OpFallocate == 43
OpReaddirplus == 44
OpRename2 == 45
OpCopyFileRange == 47
OpTmpfile == 51
OpStatx == 52
\* Opcode numbers the protocol table does not define.
UndefinedOpcodes == {99}

(***************************************************************************)
(* POSIX errno values used by the server (package syscall, linux).         *)
(***************************************************************************)
ENOENT == 2
EINTR == 4
EIO == 5
EBADF == 9
EACCES == 13
EEXIST == 17
ENODEV == 19
EINVAL == 22
EROFS == 30
ENOSYS == 38
EPROTO == 71
ETIMEDOUT == 110

\* The descriptor number mount() returned for /dev/fuse.
DevFd == 3
\* connection.fd after close().
ClosedFd == -1

(***************************************************************************)
(* Go error values.  A syscall.Errno carries its number; the other kinds   *)
(* are the sentinels toErrno recognises, "other" is any other error.  An   *)
(* error may wrap another one: Wrapped(n) is an error whose chain ends in  *)
(* the syscall.Errno n, Joined(k, n) an error whose chain holds both the   *)
(* sentinel k and the syscall.Errno n.                                     *)
(***************************************************************************)
NoErr == [kind |-> "nil", no |-> 0]
Errno(n) == [kind |-> "errno", no |-> n]
Sentinel(k) == [kind |-> k, no |-> 0]
Wrapped(n) == [kind |-> "wrapped", no |-> n]
Joined(k, n) ==
    [kind |-> IF k = "notexist" THEN "errno+notexist" ELSE "errno+eof",
     no |-> n]

\* errors.As(err, &errno) with errno a syscall.Errno.
errorsAsErrno(err) ==
    err.kind \in {"errno", "wrapped", "errno+notexist", "errno+eof"}

\* errors.Is(err, target) for a sentinel target.
errorsIs(err, target) ==
    \/ err.kind = target
    \/ target = "notexist" /\ err.kind = "errno+notexist"
    \/ target = "eof" /\ err.kind = "errno+eof"

\* The modulus of the model's 32-bit machine words.  TLC's integers stop
\* short of 2^32, so the words are modelled two bits narrower; wrap-around
\* and sign behave as in the 32-bit arithmetic of the code.
Wrap == 2^30

\* int32(x): two's complement truncation.
Int32(x) ==
    LET m == x % Wrap
    IN  IF m >= Wrap \div 2 THEN m - Wrap ELSE m

\* uint32(x).
Uint32(x) == x % Wrap

\* -v computed in int32 arithmetic.
NegInt32(v) == Int32(Wrap - (v % Wrap))

MutToErrnoPositive(err) ==
    IF err.kind = "nil" THEN 0
    ELSE IF err.kind = "errno" THEN Int32(err.no)
    ELSE EIO

MutToErrnoSentinelsFirst(err) ==
    IF err.kind = "nil" THEN 0
    ELSE IF errorsIs(err, "notexist") THEN -ENOENT
    ELSE IF errorsIs(err, "eof") THEN 0
    ELSE IF errorsAsErrno(err) THEN NegInt32(Int32(err.no))
    ELSE CASE errorsIs(err, "exist") -> -EEXIST
           [] errorsIs(err, "permission") -> -EACCES
           [] errorsIs(err, "closed") -> -EBADF
           [] errorsIs(err, "invalid") -> -EINVAL
           [] errorsIs(err, "canceled") -> -EINTR
           [] errorsIs(err, "deadline") -> -ETIMEDOUT
           [] OTHER -> -EIO

toErrno(err) ==
    IF err.kind = "nil" THEN 0
    ELSE IF errorsAsErrno(err) THEN NegInt32(Int32(err.no))
    ELSE CASE errorsIs(err, "notexist") -> -ENOENT
           [] errorsIs(err, "exist") -> -EEXIST
           [] errorsIs(err, "permission") -> -EACCES
           [] errorsIs(err, "closed") -> -EBADF
           [] errorsIs(err, "invalid") -> -EINVAL
           [] errorsIs(err, "eof") -> 0
           [] errorsIs(err, "canceled") -> -EINTR
           [] errorsIs(err, "deadline") -> -ETIMEDOUT
           [] OTHER -> -EIO

(***************************************************************************)
(* isWriteOp and the handlers table.                                       *)
(***************************************************************************)
MutIsWriteOpNoRename2(opcode) ==
    opcode \in {OpSetattr, OpSymlink, OpMknod, OpMkdir, OpUnlink, OpRmdir,
                OpRename, OpLink, OpWrite, OpSetxattr, OpRemovexattr,
                OpCreate, OpFallocate, OpCopyFileRange, OpTmpfile}

isWriteOp(opcode) ==
    opcode \in {OpSetattr, OpSymlink, OpMknod, OpMkdir, OpUnlink, OpRmdir,
                OpRename, OpLink, OpWrite, OpSetxattr, OpRemovexattr,
                OpCreate, OpRename2, OpFallocate, OpCopyFileRange, OpTmpfile}

MutHandlersWithFsync ==
    (OpInit :> "handleInit") @@ (OpDestroy :> "handleDestroy") @@
    (OpLookup :> "handleLookup") @@ (OpForget :> "handleForget") @@
    (OpBatchForget :> "handleBatchForget") @@
    (OpGetattr :> "handleGetattr") @@ (OpReadlink :> "handleReadlink") @@
    (OpOpen :> "handleOpen") @@ (OpRead :> "handleRead") @@
    (OpRelease :> "handleRelease") @@ (OpOpendir :> "handleOpendir") @@
    (OpReaddir :> "handleReaddir") @@
    (OpReaddirplus :> "handleReaddirplus") @@
    (OpReleasedir :> "handleReleasedir") @@ (OpStatfs :> "handleStatfs") @@
    (OpAccess :> "handleAccess") @@ (OpFlush :> "handleFlush") @@
    (OpInterrupt :> "handleInterrupt") @@ (OpFsync :> "handleFlush")

handlers ==
    (OpInit :> "handleInit") @@ (OpDestroy :> "handleDestroy") @@
    (OpLookup :> "handleLookup") @@ (OpForget :> "handleForget") @@
    (OpBatchForget :> "handleBatchForget") @@
    (OpGetattr :> "handleGetattr") @@ (OpReadlink :> "handleReadlink") @@
    (OpOpen :> "handleOpen") @@ (OpRead :> "handleRead") @@
    (OpRelease :> "handleRelease") @@ (OpOpendir :> "handleOpendir") @@
    (OpReaddir :> "handleReaddir") @@
    (OpReaddirplus :> "handleReaddirplus") @@
    (OpReleasedir :> "handleReleasedir") @@ (OpStatfs :> "handleStatfs") @@
    (OpAccess :> "handleAccess") @@ (OpFlush :> "handleFlush") @@
    (OpInterrupt :> "handleInterrupt")


\* Handlers that read a field through the typed body pointer req.body().
DerefsBody(h) ==
    h \in {"handleInit", "handleForget", "handleGetattr", "handleOpen",
           "handleRead", "handleRelease", "handleOpendir", "handleReaddir",
           "handleReaddirplus", "handleReleasedir", "handleAccess"}

\* The Filesystem method a handler calls ("none": it calls no method).
FsMethod(h) ==
    CASE h = "handleInit" -> "Init"
      [] h = "handleDestroy" -> "Destroy"
      [] h = "handleLookup" -> "Lookup"
      [] h = "handleForget" -> "Forget"
      [] h = "handleBatchForget" -> "BatchForget"
      [] h = "handleGetattr" -> "GetAttr"
      [] h = "handleReadlink" -> "ReadLink"
      [] h = "handleOpen" -> "Open"
      [] h = "handleRead" -> "Read"
      [] h = "handleRelease" -> "Release"
      [] h = "handleOpendir" -> "OpenDir"
      [] h = "handleReaddir" -> "ReadDir"
      [] h = "handleReaddirplus" -> "ReadDirPlus"
      [] h = "handleReleasedir" -> "ReleaseDir"
      [] h = "handleStatfs" -> "StatFS"
      [] h = "handleAccess" -> "Access"
      [] OTHER -> "none"

(***************************************************************************)
(* Request and response framing.                                           *)
(***************************************************************************)
\* request.body(): nil when nothing follows the header.
bodyIsNil(r) == r.n <= InHeaderSize

\* len(request.bodyBytes()).
bodyLen(r) == IF r.n <= InHeaderSize THEN 0 ELSE r.n - InHeaderSize

\* An InitOut that was not filled in.
NoInitOut == [major |-> 0, minor |-> 0, flags |-> {}]

\* No frame: the handler sends nothing.  A frame is the OutHeader words,
\* the number of bytes handed to the write, and the decoded payload: the
\* InitOut of an INIT reply, the records of a READDIR or READDIRPLUS reply.
NoFrame ==
    [len |-> 0, error |-> 0, unique |-> 0, nbytes |-> 0, payload |-> 0,
     init |-> NoInitOut, dirents |-> << >>]

MutNewResponseNodeID(req, payloadSize) ==
    [len |-> Uint32(OutHeaderSize + payloadSize), error |-> 0,
     unique |-> req.nodeid, nbytes |-> OutHeaderSize + payloadSize,
     payload |-> payloadSize, init |-> NoInitOut, dirents |-> << >>]

newResponse(req, payloadSize) ==
    [len |-> Uint32(OutHeaderSize + payloadSize), error |-> 0,
     unique |-> req.unique, nbytes |-> OutHeaderSize + payloadSize,
     payload |-> payloadSize, init |-> NoInitOut, dirents |-> << >>]

newErrorResponse(req, errno) ==
    [len |-> Uint32(OutHeaderSize), error |-> errno, unique |-> req.unique,
     nbytes |-> OutHeaderSize, payload |-> 0, init |-> NoInitOut,
     dirents |-> << >>]

MutSendErrorNoReplyToInit(req, err) ==
    IF req.opcode \in {OpForget, OpBatchForget, OpInit}
    THEN NoFrame
    ELSE newErrorResponse(req, toErrno(err))

\* Server.sendError: the frame handed to writeResponse, NoFrame for the
\* FORGET opcodes.
sendError(req, err) ==
    IF req.opcode = OpForget \/ req.opcode = OpBatchForget
    THEN NoFrame
    ELSE newErrorResponse(req, toErrno(err))

\* Server.sendResponse: the frame handed to writeResponse.
sendResponse(req, payloadSize) == newResponse(req, payloadSize)

(***************************************************************************)
(* Directory serialization.  An entry's name is represented by its length; *)
(* an emitted record by its decoded header words and its padded length.    *)
(***************************************************************************)
paddedSize(prefix, nameLen) == ((prefix + nameLen + 7) \div 8) * 8

\* len(buf): the bytes of the records appended so far.
RECURSIVE bytesLen(_)
bytesLen(buf) ==
    IF buf = << >> THEN 0 ELSE Head(buf).reclen + bytesLen(Tail(buf))

MutDirentsSkipTooLong(entries, maxSize, buf) ==
    LET step[k \in 0 .. Len(entries)] ==
            IF k = 0 THEN buf
            ELSE LET e == entries[k]
                     sz == paddedSize(DirentSize, e.NameLen)
                 IN  IF Uint32(bytesLen(step[k - 1]) + sz) > maxSize
                     THEN step[k - 1]
                     ELSE Append(step[k - 1],
                                 [ino |-> e.Ino, off |-> e.Offset,
                                  namelen |-> e.NameLen, type |-> e.Type,
                                  reclen |-> sz])
    IN  step[Len(entries)]

\* The loop of serializeDirents from the point where buf holds the records
\* already appended and entries are those not yet visited.
RECURSIVE direntsLoop(_, _, _)
direntsLoop(entries, maxSize, buf) ==
    IF entries = << >> THEN buf
    ELSE LET e == Head(entries)
             sz == paddedSize(DirentSize, e.NameLen)
         IN  IF Uint32(bytesLen(buf) + sz) > maxSize
             THEN buf
             ELSE direntsLoop(Tail(entries), maxSize,
                              Append(buf, [ino |-> e.Ino, off |-> e.Offset,
                                           namelen |-> e.NameLen,
                                           type |-> e.Type, reclen |-> sz]))

serializeDirents(entries, maxSize) == direntsLoop(entries, maxSize, << >>)

MutDirentsPlusPrefixDirent(entries, maxSize, buf) ==
    direntsLoop([k \in 1 .. Len(entries) |->
                    [Ino |-> entries[k].Ino, Offset |-> entries[k].Generation,
                     NameLen |-> entries[k].NameLen, Type |-> 0]],
                maxSize, buf)

\* The loop of serializeDirentsPlus.  The off word is written from
\* entry.Entry.Generation.
RECURSIVE direntsPlusLoop(_, _, _)
direntsPlusLoop(entries, maxSize, buf) ==
    IF entries = << >> THEN buf
    ELSE LET e == Head(entries)
             sz == paddedSize(DirentPlusSize, e.NameLen)
         IN  IF Uint32(bytesLen(buf) + sz) > maxSize
             THEN buf
             ELSE direntsPlusLoop(Tail(entries), maxSize,
                                  Append(buf, [ino |-> e.Ino,
                                               off |-> e.Generation,
                                               namelen |-> e.NameLen,
                                               reclen |-> sz]))

serializeDirentsPlus(entries, maxSize) ==
    direntsPlusLoop(entries, maxSize, << >>)

(***************************************************************************)
(* INIT negotiation.  A capability word is the set of its bit positions.   *)
(***************************************************************************)
CapAsyncRead == {0}
CapPosixLocks == {1}
CapExportSupport == {4}
CapAutoInvalData == {12}
CapReaddirplus == {13}
CapReaddirplusAuto == {14}
CapParallelDirops == {18}
CapMaxPages == {22}
CapCacheSymlinks == {23}
CapInitExt == {30}

\* The bits of a uint32 word.
Uint32Bits == 0 .. 31

MutInitFlagsAdvertiseAll(offered) ==
    (CapAsyncRead \cup CapParallelDirops \cup CapAutoInvalData
        \cup CapReaddirplus \cup CapReaddirplusAuto \cup CapCacheSymlinks
        \cup CapExportSupport \cup CapMaxPages) \cap Uint32Bits

\* handleInit: the flags word of the InitOut for the kernel's in.Flags.
initFlags(offered) ==
    ((CapAsyncRead \cup CapParallelDirops \cup CapAutoInvalData
        \cup CapReaddirplus \cup CapReaddirplusAuto \cup CapCacheSymlinks
        \cup CapExportSupport \cup CapMaxPages) \cap Uint32Bits) \cap offered

MutInitVersionCheckAnyMajor(major, minor) ==
    IF minor < MinSupportedMinor THEN "EPROTO" ELSE "negotiate"

MutInitVersionCheckAnyMinor(major, minor) ==
    IF major # FuseKernelVersion THEN "renegotiate" ELSE "negotiate"

\* handleInit: validation of the kernel's protocol version.
initVersionCheck(major, minor) ==
    IF major # FuseKernelVersion THEN "renegotiate"
    ELSE IF minor < MinSupportedMinor THEN "EPROTO"
    ELSE "negotiate"

MutNegotiateMinorNoClamp(kernelMinor) == kernelMinor

\* handleInit: the negotiated minor version.
negotiateMinor(kernelMinor) ==
    IF kernelMinor > FuseKernelMinorVersion
    THEN FuseKernelMinorVersion
    ELSE kernelMinor

(***************************************************************************)
(* BATCH_FORGET decoding.                                                  *)
(***************************************************************************)
\* The k-th ForgetOne the kernel put on the wire.
WireForget(k) == [Ino |-> 100 + k, Nlookup |-> k]

\* The zero value of ForgetEntry.
ZeroForget == [Ino |-> 0, Nlookup |-> 0]

\* handleBatchForget: the slice handed to Filesystem.BatchForget.  It is
\* made with in.Count elements; the loop fills those whose ForgetOne lies
\* completely inside the body.
batchForgetEntries(r) ==
    LET complete == (bodyLen(r) - BatchForgetInSize) \div ForgetOneSize
    IN  [k \in 1 .. r.count |->
            IF k <= complete THEN WireForget(k) ELSE ZeroForget]

(***************************************************************************)
(* What the kernel and the filesystem may supply.                          *)
(***************************************************************************)
\* Every opcode number of the protocol table, plus an undefined one.
AllOpcodes == (0 .. OpStatx) \cup UndefinedOpcodes

\* A sample with one opcode of each dispatch class, for the runs that
\* explore the interleavings of several workers with shutdown: a handler
\* that replies, one that never replies, and a rejected write.
SampleOpcodes == {OpLookup, OpForget, OpWrite}

\* The tasks that call Server.Unmount: the signal goroutine of the README's
\* main, and a second caller racing with it.
UnmountCallers == {1, 2}

KernelMajors == {FuseKernelVersion, FuseKernelVersion + 1}
KernelMinors == {MinSupportedMinor - 1, FuseKernelMinorVersion + 1}
ReadSizes == {64}
ReadLens == {0, 5}
TargetLens == {3}
\* A DirEntry with the given inode, cookie and name length.
DirEntry(ino, nameLen) ==
    [Ino |-> ino, Offset |-> ino + 1, Type |-> 8, NameLen |-> nameLen]

\* A DirEntryPlus: DirEntryPlus has a name and an Entry, and no cookie.
DirEntryPlus(ino, gen, nameLen) ==
    [Ino |-> ino, Generation |-> gen, NameLen |-> nameLen]

\* What ReadDir may return: one-byte names (padded records of 32 bytes),
\* a 9-byte name (40 bytes) and a 41-byte name (72 bytes).
DirListings ==
    { << >>,
      << DirEntry(2, 1) >>,
      << DirEntry(2, 1), DirEntry(3, 1), DirEntry(4, 1) >>,
      << DirEntry(2, 41), DirEntry(3, 1) >>,
      << DirEntry(2, 1), DirEntry(3, 9), DirEntry(4, 1) >> }

\* What ReadDirPlus may return: padded records of 160 and 168 bytes;
\* generation 0 on every entry, or a generation that differs per entry.
DirPlusListings ==
    { << >>,
      << DirEntryPlus(2, 0, 1) >>,
      << DirEntryPlus(2, 0, 1), DirEntryPlus(3, 0, 1), DirEntryPlus(4, 0, 1) >>,
      << DirEntryPlus(2, 5, 9), DirEntryPlus(3, 6, 1) >> }
FsErrors == {Errno(ENOENT)}

\* Body lengths the kernel (or a truncating transport) may deliver.
BodyLens(op) ==
    CASE op = OpInit -> {0, 4, InitInSize}
      [] op = OpGetattr -> {0, 4, GetAttrInSize}
      [] op \in {OpOpen, OpOpendir} -> {0, 4, OpenInSize}
      [] op \in {OpRead, OpReaddir, OpReaddirplus} -> {0, 4, ReadInSize}
      [] op \in {OpRelease, OpReleasedir} -> {0, 4, ReleaseInSize}
      [] op = OpAccess -> {0, 4, AccessInSize}
      [] op = OpForget -> {0, 4, ForgetInSize}
      [] op = OpBatchForget ->
             {0, 4, BatchForgetInSize, BatchForgetInSize + ForgetOneSize}
      [] op = OpLookup -> {0, 6}
      [] OTHER -> {0, 8}

\* The frames the device can hand to one read: header fields and the
\* words the typed body view of the opcode will decode.  With a body
\* shorter than the view, the words beyond it are whatever the pooled
\* buffer held.
Requests(ops) ==
    UNION { { [opcode |-> op, n |-> InHeaderSize + b, major |-> ma,
               minor |-> mi, size |-> sz,
               flags |-> IF op = OpInit THEN Uint32Bits ELSE {},
               count |-> IF op = OpBatchForget /\ b >= BatchForgetInSize
                         THEN 1 ELSE 0] :
                b \in BodyLens(op),
                ma \in KernelMajors \cup {0}, mi \in KernelMinors \cup {0},
                sz \in ReadSizes \cup {0} } :
            op \in ops }

KernelRequests(ops) ==
    { k \in Requests(ops) :
        /\ k.n - InHeaderSize \in BodyLens(k.opcode)
        /\ IF k.opcode = OpInit /\ k.n > InHeaderSize
           THEN k.major \in KernelMajors /\ k.minor \in KernelMinors
           ELSE k.major = 0 /\ k.minor = 0
        /\ IF k.opcode \in {OpRead, OpReaddir, OpReaddirplus}
              /\ k.n > InHeaderSize
           THEN k.size \in ReadSizes
           ELSE k.size = 0 }

\* What a Filesystem method may return: an error, a value whose encoded
\* payload has the given size, or a directory listing.
FsResultsOf(r, errs) ==
    LET ok(sizes) ==
            { [err |-> NoErr, size |-> z, entries |-> << >>] : z \in sizes }
        listing(ds) == { [err |-> NoErr, size |-> 0, entries |-> d] : d \in ds }
        failed == { [err |-> e, size |-> 0, entries |-> << >>] : e \in errs }
        m == r.method
    IN  CASE m = "Init" -> ok({InitOutSize}) \cup failed
          [] m = "Lookup" -> ok({EntryOutSize}) \cup failed
          [] m = "GetAttr" -> ok({AttrOutSize}) \cup failed
          [] m = "ReadLink" -> ok(TargetLens) \cup failed
          [] m \in {"Open", "OpenDir"} -> ok({OpenOutSize}) \cup failed
          [] m = "Read" -> ok(ReadLens) \cup failed
          [] m = "ReadDir" -> listing(DirListings) \cup failed
          [] m = "ReadDirPlus" -> listing(DirPlusListings) \cup failed
          [] m = "StatFS" -> ok({StatfsOutSize}) \cup failed
          [] m \in {"Release", "ReleaseDir", "Access"} -> ok({0}) \cup failed
          [] OTHER -> ok({0})

FsResults(r) == FsResultsOf(r, FsErrors)

\* INIT requests with a complete InitIn.
InitMajors == {FuseKernelVersion, FuseKernelVersion + 1}
InitMinors ==
    {MinSupportedMinor - 1, MinSupportedMinor, FuseKernelMinorVersion,
     FuseKernelMinorVersion + 1}
\* The flag words the kernel offers: every bit, or async-read,
\* posix-locks and readdirplus only.
KernelFlags ==
    {Uint32Bits, CapAsyncRead \cup CapPosixLocks \cup CapReaddirplus}

InitRequests ==
    { [opcode |-> OpInit, n |-> InHeaderSize + InitInSize, major |-> ma,
       minor |-> mi, size |-> 0, flags |-> f, count |-> 0] :
        ma \in InitMajors, mi \in InitMinors, f \in KernelFlags }

\* READDIR and READDIRPLUS requests with a complete ReadIn.
DirSizes == {0, 24, 32, 64, 100, 160, 320, 328, 480}

DirRequests ==
    { [opcode |-> op, n |-> InHeaderSize + ReadInSize, major |-> 0,
       minor |-> 0, size |-> sz, flags |-> {}, count |-> 0] :
        op \in {OpReaddir, OpReaddirplus}, sz \in DirSizes }

\* BATCH_FORGET requests: the count word and a body that holds all, some
\* or none of the count entries (possibly cut inside an entry).
ForgetCounts == {0, 1, 2}
ForgetBodyLens ==
    {BatchForgetInSize, BatchForgetInSize + 8,
     BatchForgetInSize + ForgetOneSize,
     BatchForgetInSize + ForgetOneSize + 8,
     BatchForgetInSize + 2 * ForgetOneSize}

ForgetRequests ==
    { [opcode |-> OpBatchForget, n |-> InHeaderSize + b, major |-> 0,
       minor |-> 0, size |-> 0, flags |-> {}, count |-> c] :
        b \in ForgetBodyLens, c \in ForgetCounts }

(***************************************************************************)
(* bufferPool (buffer.go).  A buffer is a slice header: the array it       *)
(* points into, its length and its capacity.  The sync.Pool is the bag of  *)
(* the headers put into it and not yet taken out.                          *)
(***************************************************************************)
MinBufferSize == 8192
DefaultMaxWrite == 131072

NoBuf == [id |-> 0, len |-> 0, cap |-> 0]

\* newBufferPool(size); arg remembers the size asked for.
newBufferPool(size) ==
    [arg |-> size,
     size |-> IF size < MinBufferSize THEN MinBufferSize ELSE size,
     items |-> EmptyBag]

\* The pool's New function: make([]byte, size) on a fresh array.
poolNew(p, id) == [id |-> id, len |-> p.size, cap |-> p.size]

MutGetLeavesItem(p, allocs) ==
    { [buf |-> h, items |-> p.items, allocs |-> allocs] :
        h \in BagToSet(p.items) }
    \cup (IF allocs < MaxBufs
          THEN {[buf |-> poolNew(p, allocs + 1), items |-> p.items,
                 allocs |-> allocs + 1]}
          ELSE {})

\* bufferPool.get: sync.Pool.Get takes any item out of the pool, or calls
\* New (allocs counts the arrays allocated so far).  The outcomes: the
\* buffer returned, the items left and the new count.
get(p, allocs) ==
    { [buf |-> h, items |-> p.items (-) SetToBag({h}), allocs |-> allocs] :
        h \in BagToSet(p.items) }
    \cup (IF allocs < MaxBufs
          THEN {[buf |-> poolNew(p, allocs + 1), items |-> p.items,
                 allocs |-> allocs + 1]}
          ELSE {})

MutPutAnyCapacity(p, buf) == p.items (+) SetToBag({buf})

\* bufferPool.put: the items of the pool after put(buf).
put(p, buf) ==
    IF buf.cap = p.size
    THEN p.items (+) SetToBag({[buf EXCEPT !.len = p.size]})
    ELSE p.items

\* Who may hold a buffer: the reader (0) and the tasks or requests 1, 2, ...
Holders == 0 .. MaxBufReqs

(***************************************************************************)
(* State.                                                                  *)
(***************************************************************************)
VARIABLES
    fd,           \* connection.fd
    mounted,      \* the kernel still serves the FUSE session on the device
    cancelled,    \* Server.ctx is done
    writeMu,      \* connection.writeMu: 0, or the worker holding it
    wg,           \* Server.wg counter
    servePc,      \* position of the Serve loop
    readFd,       \* descriptor the outstanding syscall.Read was issued on
    readErr,      \* what readRequest returned in this iteration of Serve
    serveRet,     \* what Serve returned
    reqs,         \* the requests read so far, each with its worker's state
    dev,          \* log of syscall.Write calls on the device
    closes,       \* log of syscall.Close calls: the descriptor passed
    fsCalls,      \* Filesystem methods invoked: <<unique, method>>
    um,           \* position of each Unmount caller
    waitPc,       \* position of the Wait caller
    initialized,  \* Server.initialized
    destroyed,    \* Server.destroyed
    protoMajor,   \* connection.protoMajor
    protoMinor,   \* connection.protoMinor
    config,       \* Server.config
    crashed,      \* an unrecovered panic ended the process
    conv,         \* the conversion performed last: function, argument, result
    bufPool,      \* Server.bufPool: its size and the items of its sync.Pool
    held,         \* the buffer each holder got from the pool and still has
    allocs,       \* arrays allocated by the pool's New and by the tasks
    rejected,     \* arrays of the buffers a put did not take
    ctxs,         \* the Context each Filesystem call was entered with
    coClosed,     \* Coordinator.closed
    listener,     \* Coordinator.listener: "open" or "closed"
    workers,      \* Coordinator.workers: pid -> the worker's connection
    socks,        \* the connection each worker process dialled
    cloned,       \* the descriptor cloned for each connection
    acc,          \* the running AcceptWorker call
    closePc,      \* position of the Coordinator.Close caller
    cli,          \* each worker process in ConnectToCoordinator
    steps,        \* what the coordinator did on each connection, in order
    cm,           \* each CloneMultiple call: position, count, fds, result
    openFds       \* the /dev/fuse descriptors the clone calls hold open

vars == <<fd, mounted, cancelled, writeMu, wg, servePc, readFd, readErr, serveRet,
          reqs, dev, closes, fsCalls, um, waitPc, initialized, destroyed,
          protoMajor, protoMinor, config, crashed, conv, bufPool, held,
          allocs, rejected, ctxs, coClosed, listener, workers, socks,
          cloned, acc, closePc, cli, steps, cm, openFds>>

\* The variables of the server, the connection and their callers.
progVars ==
    <<fd, mounted, cancelled, writeMu, wg, servePc, readFd, readErr,
      serveRet, reqs, dev, closes, fsCalls, um, waitPc, initialized,
      destroyed, protoMajor, protoMinor, config, crashed>>

poolVars == <<bufPool, held, allocs, rejected>>
coordVars ==
    <<coClosed, listener, workers, socks, cloned, acc, closePc, cli, steps>>
cloneVars == <<cm, openFds>>
auxVars == <<conv, poolVars, ctxs, coordVars, cloneVars>>

\* What the steps of one component leave alone in the others.
notConv == <<poolVars, ctxs, coordVars, cloneVars>>
notPool == <<conv, ctxs, coordVars, cloneVars>>
notCtx == <<conv, poolVars, coordVars, cloneVars>>
notCoord == <<progVars, conv, poolVars, ctxs, cloneVars>>
notClone == <<progVars, conv, poolVars, ctxs, coordVars>>

srvVars == <<initialized, destroyed, protoMajor, protoMinor, config>>

\* No readRequest has returned since the read was issued.
NoRead == [errno |-> 0, err |-> "none"]

NoConfig == [set |-> FALSE, ProtoMajor |-> 0, ProtoMinor |-> 0]

\* No conversion has been performed.
NoConv == [fn |-> "none", arg |-> << >>, out |-> << >>]

\* The worker processes; a connection is named by the process that
\* dialled it.
Clients == 1 .. MaxWorkers

\* A connection nobody dialled yet.
NoSock ==
    [state |-> "none", srv |-> "none", cli |-> "none", toSrv |-> << >>,
     toCli |-> << >>]

\* NewCoordinator: a listening coordinator with an empty table, nobody in
\* AcceptWorker or Close, and worker processes that have not connected.
CoordInit ==
    /\ coClosed = FALSE
    /\ listener = "open"
    /\ workers = << >>
    /\ socks = [c \in Clients |-> NoSock]
    /\ cloned = [c \in Clients |-> "none"]
    /\ acc = [pc |-> "idle", conn |-> 0, pid |-> 0, ret |-> "none",
              calls |-> 0]
    /\ closePc = "idle"
    /\ cli = [c \in Clients |-> [pc |-> "start", pid |-> 0, ret |-> "none",
                                  fd |-> FALSE]]
    /\ steps = [c \in Clients |-> << >>]

\* The goroutines that call CloneMultiple.
CloneCallers == {1, 2}

\* No CloneMultiple call has been made and no clone is open.
CloneInit ==
    /\ cm = [t \in CloneCallers |->
               [pc |-> "idle", count |-> 0, fds |-> << >>, cur |-> 0,
                opened |-> 0, ret |-> "none"]]
    /\ openFds = {}

\* The state outside the server object before anything ran.
\* Mount: the pool of a server with the default MaxWrite.
AuxInit ==
    /\ conv = NoConv
    /\ bufPool = newBufferPool(DefaultMaxWrite + InHeaderSize + 4096)
    /\ held = [h \in Holders |-> NoBuf]
    /\ allocs = 0
    /\ rejected = {}
    /\ ctxs = {}
    /\ CoordInit
    /\ CloneInit

\* Mount / newConnection: the state of a freshly mounted server.
ServerInit ==
    /\ fd = DevFd
    /\ mounted = TRUE
    /\ cancelled = FALSE
    /\ writeMu = 0
    /\ wg = 0
    /\ servePc = "check"
    /\ readFd = DevFd
    /\ readErr = NoRead
    /\ serveRet = "none"
    /\ reqs = << >>
    /\ dev = << >>
    /\ closes = << >>
    /\ fsCalls = {}
    /\ um = [u \in UnmountCallers |-> "idle"]
    /\ waitPc = "idle"
    /\ initialized = FALSE
    /\ destroyed = FALSE
    /\ protoMajor = 0
    /\ protoMinor = 0
    /\ config = NoConfig
    /\ crashed = FALSE

Init == ServerInit /\ AuxInit

(***************************************************************************)
(* Server.Serve: the read loop.                                            *)
(***************************************************************************)
\* The unique the kernel stamps on its k-th request, and the uid, gid and
\* pid of the process that caused it.
KernelUnique(k) == 41 + k
KernelUid(k) == 1000 + k
KernelGid(k) == 100 + k
KernelPid(k) == 4000 + k

\* newRequest: the request view over the bytes read, and the worker
\* goroutine Serve spawns for it.
newRequest(k, idx) ==
    [unique |-> KernelUnique(idx), uid |-> KernelUid(idx),
     gid |-> KernelGid(idx), pid |-> KernelPid(idx),
     opcode |-> k.opcode, nodeid |-> 1,
     n |-> k.n, major |-> k.major, minor |-> k.minor, size |-> k.size,
     flags |-> k.flags, count |-> k.count,
     pc |-> "spawned", method |-> "none", out |-> NoFrame,
     cfg |-> NoConfig, forgot |-> << >>, err |-> NoErr, entries |-> << >>]

\* The top of the loop: select on ctx.Done().
ServeCheck ==
    /\ ~crashed
    /\ servePc = "check"
    /\ IF cancelled
       THEN servePc' = "returned" /\ serveRet' = "canceled"
       ELSE servePc' = "read" /\ serveRet' = serveRet
    /\ readErr' = NoRead
    /\ UNCHANGED <<fd, mounted, cancelled, writeMu, wg, readFd, reqs, dev,
                   closes, fsCalls, um, waitPc, srvVars, crashed>>

MutServeIssueReadWaits ==
    /\ wg = 0
    /\ ~crashed
    /\ servePc = "read"
    /\ servePc' = "blocked"
    /\ readFd' = fd
    /\ UNCHANGED <<fd, mounted, cancelled, writeMu, wg, readErr, serveRet,
                   reqs, dev, closes, fsCalls, um, waitPc, srvVars, crashed>>

\* readRequest enters syscall.Read with the current value of c.fd.
ServeIssueRead ==
    /\ ~crashed
    /\ servePc = "read"
    /\ servePc' = "blocked"
    /\ readFd' = fd
    /\ UNCHANGED <<fd, mounted, cancelled, writeMu, wg, readErr, serveRet,
                   reqs, dev, closes, fsCalls, um, waitPc, srvVars, crashed>>

\* connection.readRequest: the error it returns when syscall.Read fails
\* with errno.
readRequestError(errno) ==
    [errno |-> errno,
     err |-> IF errno = ENODEV THEN "ErrNotMounted"
             ELSE IF errno = EINTR THEN "EINTR"
             ELSE "EBADF"]

MutServeOnErrorEintrEnds(err) ==
    IF err = "ErrNotMounted"
    THEN [pc |-> "returned", ret |-> "nil"]
    ELSE [pc |-> "returned", ret |-> err]

\* Server.Serve: what the loop does with a non-nil error of readRequest.
serveOnError(err) ==
    IF err = "EINTR"
    THEN [pc |-> "check", ret |-> "none"]
    ELSE IF err = "ErrNotMounted"
    THEN [pc |-> "returned", ret |-> "nil"]
    ELSE [pc |-> "returned", ret |-> err]

\* readRequest failed with res: nothing is dispatched.
ServeFail(res) ==
    /\ readErr' = res
    /\ servePc' = serveOnError(res.err).pc
    /\ serveRet' = IF serveOnError(res.err).pc = "returned"
                   THEN serveOnError(res.err).ret
                   ELSE serveRet
    /\ UNCHANGED <<reqs, wg>>

\* syscall.Read returns, and Serve acts on readRequest's result.  K is the
\* set of frames the kernel may deliver, max the number it delivers in the
\* run, inflight the number of requests it keeps outstanding at a time.
ServeRead(K, max, inflight) ==
    /\ ~crashed
    /\ servePc = "blocked"
    /\ UNCHANGED <<fd, mounted, cancelled, writeMu, readFd, dev, closes,
                   fsCalls, um, waitPc, srvVars, crashed>>
    /\ \/ /\ readFd = ClosedFd
          /\ ServeFail(readRequestError(EBADF))
       \/ /\ readFd # ClosedFd
          /\ ~mounted
          /\ ServeFail(readRequestError(ENODEV))
       \/ /\ readFd # ClosedFd
          /\ mounted
          /\ ServeFail(readRequestError(EINTR))
       \/ /\ readFd # ClosedFd
          /\ mounted
          /\ ServeFail([errno |-> 0, err |-> "ErrUnexpectedEOF"])
       \/ /\ readFd # ClosedFd
          /\ mounted
          /\ Len(reqs) < max
          /\ wg < inflight
          /\ \E k \in K : reqs' = Append(reqs, newRequest(k, Len(reqs) + 1))
          /\ wg' = wg + 1
          /\ servePc' = "check"
          /\ readErr' = [errno |-> 0, err |-> "nil"]
          /\ UNCHANGED serveRet

\* The session goes away without Unmount being called (umount by the
\* administrator, or the kernel aborting the connection).
DeviceGone ==
    /\ ~crashed
    /\ mounted
    /\ mounted' = FALSE
    /\ UNCHANGED <<fd, cancelled, writeMu, wg, servePc, readFd, readErr, serveRet,
                   reqs, dev, closes, fsCalls, um, waitPc, srvVars, crashed>>

(***************************************************************************)
(* The worker goroutine: handleRequest, the handler, the response write.   *)
(***************************************************************************)
\* The worker's next position once its handler produced `frame`.
Reply(r, frame) ==
    IF frame = NoFrame
    THEN [r EXCEPT !.pc = "release"]
    ELSE [r EXCEPT !.pc = "send", !.out = frame]

\* handleRequest up to the point where it sends, panics, or enters a
\* Filesystem method.
handleRequest(i) ==
    /\ ~crashed
    /\ i \in DOMAIN reqs
    /\ reqs[i].pc = "spawned"
    /\ UNCHANGED <<fd, mounted, cancelled, writeMu, wg, servePc, readFd, readErr,
                   serveRet, dev, closes, um, waitPc, initialized, destroyed>>
    /\ LET r == reqs[i]
           h == handlers[r.opcode]
           enter == [r EXCEPT !.pc = "fs", !.method = FsMethod(h)]
           called == fsCalls \cup {<<r.unique, FsMethod(h)>>}
       IN  IF isWriteOp(r.opcode)
           THEN /\ reqs' = [reqs EXCEPT ![i] = Reply(r, sendError(r, Errno(EROFS)))]
                /\ UNCHANGED <<fsCalls, protoMajor, protoMinor, config, crashed>>
           ELSE IF r.opcode \notin DOMAIN handlers
           THEN /\ reqs' = [reqs EXCEPT ![i] = Reply(r, sendError(r, Errno(ENOSYS)))]
                /\ UNCHANGED <<fsCalls, protoMajor, protoMinor, config, crashed>>
           ELSE IF DerefsBody(h) /\ bodyIsNil(r)
           THEN \* nil pointer dereference: the deferred release and Done
                \* run, then the process dies
                /\ reqs' = [reqs EXCEPT ![i] = [r EXCEPT !.pc = "panicked"]]
                /\ crashed' = TRUE
                /\ UNCHANGED <<fsCalls, protoMajor, protoMinor, config>>
           ELSE IF h = "handleInit"
           THEN IF initVersionCheck(r.major, r.minor) = "renegotiate"
                THEN /\ reqs' = [reqs EXCEPT ![i] =
                          Reply(r, [sendResponse(r, InitOutSize) EXCEPT
                                      !.init = [major |-> FuseKernelVersion,
                                                minor |-> FuseKernelMinorVersion,
                                                flags |-> {}]])]
                     /\ UNCHANGED <<fsCalls, protoMajor, protoMinor, config,
                                    crashed>>
                ELSE IF initVersionCheck(r.major, r.minor) = "EPROTO"
                THEN /\ reqs' = [reqs EXCEPT ![i] =
                                   Reply(r, sendError(r, Errno(EPROTO)))]
                     /\ UNCHANGED <<fsCalls, protoMajor, protoMinor, config,
                                    crashed>>
                ELSE LET minor == negotiateMinor(r.minor)
                         cfg == [set |-> TRUE, ProtoMajor |-> r.major,
                                 ProtoMinor |-> minor]
                     IN  /\ protoMajor' = r.major
                         /\ protoMinor' = minor
                         /\ config' = cfg
                         /\ fsCalls' = called
                         /\ reqs' = [reqs EXCEPT ![i] =
                                        [enter EXCEPT !.cfg = cfg]]
                         /\ UNCHANGED crashed
           ELSE IF h = "handleFlush"
           THEN /\ reqs' = [reqs EXCEPT ![i] = Reply(r, sendResponse(r, 0))]
                /\ UNCHANGED <<fsCalls, protoMajor, protoMinor, config, crashed>>
           ELSE IF h = "handleInterrupt"
           THEN /\ reqs' = [reqs EXCEPT ![i] = Reply(r, NoFrame)]
                /\ UNCHANGED <<fsCalls, protoMajor, protoMinor, config, crashed>>
           ELSE IF h = "handleBatchForget" /\ bodyLen(r) < BatchForgetInSize
           THEN /\ reqs' = [reqs EXCEPT ![i] =
                              Reply(r, sendError(r, Errno(EINVAL)))]
                /\ UNCHANGED <<fsCalls, protoMajor, protoMinor, config, crashed>>
           ELSE IF h = "handleBatchForget"
           THEN /\ fsCalls' = called
                /\ reqs' = [reqs EXCEPT ![i] =
                               [enter EXCEPT !.forgot = batchForgetEntries(r)]]
                /\ UNCHANGED <<protoMajor, protoMinor, config, crashed>>
           ELSE /\ fsCalls' = called
                /\ reqs' = [reqs EXCEPT ![i] = enter]
                /\ UNCHANGED <<protoMajor, protoMinor, config, crashed>>

\* The Filesystem method returns one of `results` and the handler finishes.
handlerReturn(i, results) ==
    /\ ~crashed
    /\ i \in DOMAIN reqs
    /\ reqs[i].pc = "fs"
    /\ UNCHANGED <<fd, mounted, cancelled, writeMu, wg, servePc, readFd,
                   readErr, serveRet, dev, closes, fsCalls, um, waitPc,
                   protoMajor, protoMinor, config, crashed>>
    /\ \E res \in results :
         LET r == [reqs[i] EXCEPT !.err = res.err, !.entries = res.entries]
         IN  IF res.err # NoErr
             THEN /\ reqs' = [reqs EXCEPT ![i] = Reply(r, sendError(r, res.err))]
                  /\ UNCHANGED <<initialized, destroyed>>
             ELSE IF r.method \in {"Forget", "BatchForget"}
             THEN /\ reqs' = [reqs EXCEPT ![i] = Reply(r, NoFrame)]
                  /\ UNCHANGED <<initialized, destroyed>>
             ELSE IF r.method = "Init"
             THEN /\ reqs' = [reqs EXCEPT ![i] =
                      Reply(r, [sendResponse(r, InitOutSize) EXCEPT
                                  !.init = [major |-> FuseKernelVersion,
                                            minor |-> negotiateMinor(r.minor),
                                            flags |-> initFlags(r.flags)]])]
                  /\ initialized' = TRUE
                  /\ UNCHANGED destroyed
             ELSE IF r.method = "ReadDir"
             THEN LET data == serializeDirents(res.entries, r.size)
                  IN  /\ reqs' = [reqs EXCEPT ![i] =
                            Reply(r, [sendResponse(r, bytesLen(data)) EXCEPT
                                        !.dirents = data])]
                      /\ UNCHANGED <<initialized, destroyed>>
             ELSE IF r.method = "ReadDirPlus"
             THEN LET data == serializeDirentsPlus(res.entries, r.size)
                  IN  /\ reqs' = [reqs EXCEPT ![i] =
                            Reply(r, [sendResponse(r, bytesLen(data)) EXCEPT
                                        !.dirents = data])]
                      /\ UNCHANGED <<initialized, destroyed>>
             ELSE /\ reqs' = [reqs EXCEPT ![i] =
                                Reply(r, sendResponse(r, res.size))]
                  /\ initialized' = initialized
                  /\ destroyed' = (destroyed \/ r.method = "Destroy")

FsReturn(i) ==
    i \in DOMAIN reqs /\ handlerReturn(i, FsResults(reqs[i]))

\* writeResponse: c.writeMu.Lock().
MutWriteLockNoMutex(i) ==
    /\ ~crashed
    /\ i \in DOMAIN reqs
    /\ reqs[i].pc = "send"
    /\ writeMu' = i
    /\ reqs' = [reqs EXCEPT ![i].pc = "write"]
    /\ UNCHANGED <<fd, mounted, cancelled, wg, servePc, readFd, readErr, serveRet,
                   dev, closes, fsCalls, um, waitPc, srvVars, crashed>>

WriteLock(i) ==
    /\ ~crashed
    /\ i \in DOMAIN reqs
    /\ reqs[i].pc = "send"
    /\ writeMu = 0
    /\ writeMu' = i
    /\ reqs' = [reqs EXCEPT ![i].pc = "write"]
    /\ UNCHANGED <<fd, mounted, cancelled, wg, servePc, readFd, readErr, serveRet,
                   dev, closes, fsCalls, um, waitPc, srvVars, crashed>>

\* writeResponse: syscall.Write(c.fd, data) and the deferred Unlock.  The
\* result of the write is dropped by sendError and sendResponse.
writeResponse(i) ==
    /\ ~crashed
    /\ i \in DOMAIN reqs
    /\ reqs[i].pc = "write"
    /\ dev' = Append(dev, [frame |-> reqs[i].out, by |-> i, fd |-> fd,
                           live |-> mounted])
    /\ writeMu' = 0
    /\ reqs' = [reqs EXCEPT ![i].pc = "release"]
    /\ UNCHANGED <<fd, mounted, cancelled, wg, servePc, readFd, readErr, serveRet,
                   closes, fsCalls, um, waitPc, srvVars, crashed>>

\* The goroutine's deferred calls: r.release() and s.wg.Done().
WorkerDone(i) ==
    /\ ~crashed
    /\ i \in DOMAIN reqs
    /\ reqs[i].pc = "release"
    /\ reqs' = [reqs EXCEPT ![i].pc = "done"]
    /\ wg' = wg - 1
    /\ UNCHANGED <<fd, mounted, cancelled, writeMu, servePc, readFd, readErr,
                   serveRet, dev, closes, fsCalls, um, waitPc, srvVars,
                   crashed>>

(***************************************************************************)
(* Server.Unmount, connection.close, Server.Wait.                          *)
(***************************************************************************)
\* Unmount: s.cancel().
UnmountCancel(u) ==
    /\ ~crashed
    /\ um[u] = "idle"
    /\ cancelled' = TRUE
    /\ um' = [um EXCEPT ![u] = "unmount"]
    /\ UNCHANGED <<fd, mounted, writeMu, wg, servePc, readFd, readErr, serveRet,
                   reqs, dev, closes, fsCalls, waitPc, srvVars, crashed>>

\* Unmount: unmount(s.mountPoint), which may fail.
unmount(u) ==
    /\ ~crashed
    /\ um[u] = "unmount"
    /\ \E ok \in BOOLEAN : mounted' = (mounted /\ ~ok)
    /\ um' = [um EXCEPT ![u] = "close"]
    /\ UNCHANGED <<fd, cancelled, writeMu, wg, servePc, readFd, readErr, serveRet,
                   reqs, dev, closes, fsCalls, waitPc, srvVars, crashed>>

\* close: the test c.fd >= 0.
CloseCheck(u) ==
    /\ ~crashed
    /\ um[u] = "close"
    /\ um' = [um EXCEPT ![u] = IF fd >= 0 THEN "closing" ELSE "done"]
    /\ UNCHANGED <<fd, mounted, cancelled, writeMu, wg, servePc, readFd, readErr,
                   serveRet, reqs, dev, closes, fsCalls, waitPc, srvVars,
                   crashed>>

\* close: syscall.Close(c.fd).
CloseSyscall(u) ==
    /\ ~crashed
    /\ um[u] = "closing"
    /\ closes' = Append(closes, fd)
    /\ um' = [um EXCEPT ![u] = "closed"]
    /\ UNCHANGED <<fd, mounted, cancelled, writeMu, wg, servePc, readFd, readErr,
                   serveRet, reqs, dev, fsCalls, waitPc, srvVars, crashed>>

\* close: c.fd = -1, and Unmount returns.
CloseStore(u) ==
    /\ ~crashed
    /\ um[u] = "closed"
    /\ fd' = ClosedFd
    /\ um' = [um EXCEPT ![u] = "done"]
    /\ UNCHANGED <<mounted, cancelled, writeMu, wg, servePc, readFd, readErr,
                   serveRet, reqs, dev, closes, fsCalls, waitPc, srvVars,
                   crashed>>

\* Wait is called.
WaitCall ==
    /\ ~crashed
    /\ waitPc = "idle"
    /\ waitPc' = "waiting"
    /\ UNCHANGED <<fd, mounted, cancelled, writeMu, wg, servePc, readFd, readErr,
                   serveRet, reqs, dev, closes, fsCalls, um, srvVars, crashed>>

\* s.wg.Wait() returns.
WaitReturn ==
    /\ ~crashed
    /\ waitPc = "waiting"
    /\ wg = 0
    /\ waitPc' = "returned"
    /\ UNCHANGED <<fd, mounted, cancelled, writeMu, wg, servePc, readFd, readErr,
                   serveRet, reqs, dev, closes, fsCalls, um, srvVars, crashed>>

(***************************************************************************)
(* Specifications.                                                         *)
(***************************************************************************)
Worker(i) ==
    \/ handleRequest(i) /\ UNCHANGED auxVars
    \/ FsReturn(i) /\ UNCHANGED auxVars
    \/ WriteLock(i) /\ UNCHANGED auxVars
    \/ writeResponse(i) /\ UNCHANGED auxVars
    \/ WorkerDone(i) /\ UNCHANGED auxVars

Unmount(u) ==
    \/ UnmountCancel(u) /\ UNCHANGED auxVars
    \/ unmount(u) /\ UNCHANGED auxVars
    \/ CloseCheck(u) /\ UNCHANGED auxVars
    \/ CloseSyscall(u) /\ UNCHANGED auxVars
    \/ CloseStore(u) /\ UNCHANGED auxVars

\* Well-formed requests: the body has the length the opcode's layout has.
WellFormed(K) ==
    { k \in K : \A b \in BodyLens(k.opcode) : b <= k.n - InHeaderSize }

\* The whole server: the read loop, concurrent workers, the Unmount
\* callers and a Wait caller, on well-formed requests.
Next ==
    \/ ServeCheck /\ UNCHANGED auxVars
    \/ ServeIssueRead /\ UNCHANGED auxVars
    \/ ServeRead(WellFormed(KernelRequests(SampleOpcodes)), MaxReqs, MaxReqs)
         /\ UNCHANGED auxVars
    \/ DeviceGone /\ UNCHANGED auxVars
    \/ \E i \in 1 .. MaxReqs : Worker(i)
    \/ \E u \in UnmountCallers : Unmount(u)
    \/ WaitCall /\ UNCHANGED auxVars
    \/ WaitReturn /\ UNCHANGED auxVars

Spec == Init /\ [][Next]_vars

\* The read loop and its concurrent workers while nobody calls Unmount.
NextServe ==
    \/ ServeCheck /\ UNCHANGED auxVars
    \/ ServeIssueRead /\ UNCHANGED auxVars
    \/ ServeRead(WellFormed(KernelRequests(SampleOpcodes)), MaxReqs, MaxReqs)
         /\ UNCHANGED auxVars
    \/ DeviceGone /\ UNCHANGED auxVars
    \/ \E i \in 1 .. MaxReqs : Worker(i)

SpecServe == Init /\ [][NextServe]_vars

\* Server states a request can meet: before INIT, and after an INIT that
\* negotiated a minor version the server stores.
InitDispatch ==
    /\ fd = DevFd
    /\ mounted = TRUE
    /\ cancelled = FALSE
    /\ writeMu = 0
    /\ wg = 0
    /\ servePc = "check"
    /\ readFd = DevFd
    /\ readErr = NoRead
    /\ serveRet = "none"
    /\ reqs = << >>
    /\ dev = << >>
    /\ closes = << >>
    /\ fsCalls = {}
    /\ um = [u \in UnmountCallers |-> "idle"]
    /\ waitPc = "idle"
    /\ destroyed = FALSE
    /\ crashed = FALSE
    /\ AuxInit
    /\ \/ /\ initialized = FALSE
          /\ protoMajor = 0
          /\ protoMinor = 0
          /\ config = NoConfig
       \/ /\ initialized = TRUE
          /\ protoMajor = FuseKernelVersion
          /\ protoMinor = FuseKernelMinorVersion
          /\ config = [set |-> TRUE, ProtoMajor |-> protoMajor,
                       ProtoMinor |-> protoMinor]

\* Dispatch of every opcode: the kernel issues one request at a time.
NextDispatch ==
    \/ ServeCheck /\ UNCHANGED auxVars
    \/ ServeIssueRead /\ UNCHANGED auxVars
    \/ ServeRead(KernelRequests(AllOpcodes), MaxDispatch, 1)
         /\ UNCHANGED auxVars
    \/ DeviceGone /\ UNCHANGED auxVars
    \/ \E i \in 1 .. MaxDispatch : Worker(i)

SpecDispatch == InitDispatch /\ [][NextDispatch]_vars

\* INIT negotiation: the kernel sends INIT requests one after the other to
\* a freshly mounted server.
NextInit ==
    \/ ServeCheck /\ UNCHANGED auxVars
    \/ ServeIssueRead /\ UNCHANGED auxVars
    \/ ServeRead(InitRequests, MaxInits, 1)
         /\ UNCHANGED auxVars
    \/ DeviceGone /\ UNCHANGED auxVars
    \/ \E i \in 1 .. MaxInits : Worker(i)

SpecInit == Init /\ [][NextInit]_vars

\* Decoding and encoding of variable-length bodies: READDIR, READDIRPLUS
\* and BATCH_FORGET requests, one at a time.
NextDecode ==
    \/ ServeCheck /\ UNCHANGED auxVars
    \/ ServeIssueRead /\ UNCHANGED auxVars
    \/ ServeRead(DirRequests \cup ForgetRequests, MaxDecode, 1)
         /\ UNCHANGED auxVars
    \/ DeviceGone /\ UNCHANGED auxVars
    \/ \E i \in 1 .. MaxDecode : Worker(i)

SpecDecode == Init /\ [][NextDecode]_vars

(***************************************************************************)
(* Properties.                                                             *)
(***************************************************************************)
\* The device writes made on behalf of request i.
Replies(i) == { k \in DOMAIN dev : dev[k].by = i }

\* The worker goroutine of request i has ended.
Ended(i) == reqs[i].pc \in {"done", "panicked"}

\* The handler of request i has returned to handleRequest's caller.
Handled(i) == reqs[i].pc \in {"release", "done"}

\* The opcodes the specification lists as never answered.
NoReplyOps == {OpForget, OpBatchForget, OpInterrupt}

\* The write set as the specification lists it.
WriteSet ==
    {OpSetattr, OpSymlink, OpMknod, OpMkdir, OpUnlink, OpRmdir, OpRename,
     OpRename2, OpLink, OpWrite, OpSetxattr, OpRemovexattr, OpCreate,
     OpFallocate, OpCopyFileRange, OpTmpfile}

\* The opcodes of the handler table as the specification lists them.
HandledSet ==
    {OpInit, OpDestroy, OpLookup, OpForget, OpBatchForget, OpGetattr,
     OpReadlink, OpOpen, OpRead, OpRelease, OpOpendir, OpReaddir,
     OpReaddirplus, OpReleasedir, OpStatfs, OpAccess, OpFlush, OpInterrupt}

\* The fixed-layout body an opcode expects (0: none).
ExpectedBody(op) ==
    CASE op = OpInit -> InitInSize
      [] op = OpGetattr -> GetAttrInSize
      [] op \in {OpOpen, OpOpendir} -> OpenInSize
      [] op \in {OpRead, OpReaddir, OpReaddirplus} -> ReadInSize
      [] op \in {OpRelease, OpReleasedir} -> ReleaseInSize
      [] op = OpAccess -> AccessInSize
      [] OTHER -> 0

\* C1: every request gets at most one reply frame; once its worker has
\* ended it got exactly one, unless its opcode is FORGET, BATCH_FORGET or
\* INTERRUPT, which never get any.
C1_ReplyExactlyOnce ==
    \A i \in DOMAIN reqs :
        /\ Cardinality(Replies(i)) <= 1
        /\ reqs[i].opcode \in NoReplyOps => Replies(i) = {}
        /\ (Ended(i) /\ reqs[i].opcode \notin NoReplyOps)
              => Cardinality(Replies(i)) = 1

\* C2: a request with an opcode of the write set never reaches a
\* Filesystem method, and the one frame written for it is the 16-byte
\* error frame carrying -EROFS, whatever its body and the server state.
C2_WriteOpsRejected ==
    \A i \in DOMAIN reqs :
        reqs[i].opcode \in WriteSet =>
            /\ reqs[i].pc \notin {"fs", "panicked"}
            /\ \A c \in fsCalls : c[1] # reqs[i].unique
            /\ \A k \in Replies(i) :
                   /\ dev[k].frame.error = -EROFS
                   /\ dev[k].frame.nbytes = OutHeaderSize
            /\ Handled(i) => Cardinality(Replies(i)) = 1

\* C2 witness: a RENAME2 or WRITE request was answered with -EROFS by a
\* server that had completed INIT.
C2_Witness ==
    \E i \in DOMAIN reqs :
        /\ reqs[i].opcode \in {OpRename2, OpWrite}
        /\ reqs[i].pc = "done"
        /\ initialized
        /\ \E k \in Replies(i) : dev[k].frame.error = -EROFS

\* C3: every frame written carries the unique of the request it answers
\* and a len equal to its byte count: 16 for an error frame, 16 plus the
\* payload length for a success frame.
C3_FrameHeader ==
    \A k \in DOMAIN dev :
        LET f == dev[k].frame
            r == reqs[dev[k].by]
        IN  /\ f.unique = r.unique
            /\ f.len = f.nbytes
            /\ f.nbytes = OutHeaderSize + f.payload
            /\ f.error # 0 => f.nbytes = OutHeaderSize

\* C3 witness: a 144-byte success frame (LOOKUP) was written for unique 42.
C3_Witness ==
    \E k \in DOMAIN dev :
        /\ dev[k].frame.error = 0
        /\ dev[k].frame.len = OutHeaderSize + EntryOutSize
        /\ dev[k].frame.unique = KernelUnique(1)
        /\ reqs[dev[k].by].opcode = OpLookup

\* C4: at most one worker is inside syscall.Write at any time, and it is
\* the holder of the write mutex; the reader can enter its read while a
\* write is in progress.
C4_WritesSerialized ==
    /\ Cardinality({ i \in DOMAIN reqs : reqs[i].pc = "write" }) <= 1
    /\ \A i \in DOMAIN reqs : reqs[i].pc = "write" => writeMu = i
    /\ (writeMu # 0 /\ servePc = "read") => ENABLED ServeIssueRead

\* C4 witness: one worker is writing, another waits for the mutex with its
\* frame, and the reader is blocked in a read of the device.
C4_Witness ==
    \E i, j \in DOMAIN reqs :
        /\ i # j
        /\ reqs[i].pc = "write"
        /\ reqs[j].pc = "send"
        /\ servePc = "blocked"

\* C5: the device descriptor is passed to the close syscall at most once,
\* for every interleaving of the Unmount callers.
C5_ClosedOnce ==
    Cardinality({ k \in DOMAIN closes : closes[k] = DevFd }) <= 1

\* C6: once an Unmount call has returned, the serve loop enters no further
\* read of the device.
C6_NoReadAfterUnmount ==
    [][(\E u \in UnmountCallers : um[u] = "done")
          => ~(servePc = "read" /\ servePc' = "blocked")]_vars

\* C7: the descriptor is closed only after the read loop has exited and
\* every worker has been joined, so no frame is written to a closed
\* descriptor.
C7_ShutdownOrder ==
    /\ closes # << >> => (servePc = "returned" /\ wg = 0)
    /\ \A k \in DOMAIN dev : dev[k].fd # ClosedFd

\* C8: a request whose opcode is neither in the write set nor in the
\* handler table never reaches a Filesystem method, and the one frame
\* written for it is the 16-byte error frame carrying -ENOSYS and the
\* request's unique.
C8_UnknownOpcodeENOSYS ==
    \A i \in DOMAIN reqs :
        (reqs[i].opcode \notin WriteSet /\ reqs[i].opcode \notin HandledSet) =>
            /\ reqs[i].pc \notin {"fs", "panicked"}
            /\ \A c \in fsCalls : c[1] # reqs[i].unique
            /\ \A k \in Replies(i) :
                   /\ dev[k].frame.error = -ENOSYS
                   /\ dev[k].frame.nbytes = OutHeaderSize
                   /\ dev[k].frame.len = OutHeaderSize
                   /\ dev[k].frame.unique = reqs[i].unique
            /\ Handled(i) => Cardinality(Replies(i)) = 1

\* C8 witness: a request whose opcode is undefined (99) or defined but
\* unhandled (FSYNC, GETXATTR) was answered with -ENOSYS.
C8_Witness ==
    \E i \in DOMAIN reqs :
        /\ reqs[i].opcode \in UndefinedOpcodes \cup {OpFsync, OpGetxattr}
        /\ reqs[i].pc = "done"
        /\ \E k \in Replies(i) : dev[k].frame.error = -ENOSYS

\* C9: a request whose body is shorter than the layout its opcode expects
\* neither panics nor reaches a Filesystem method (its fields are not
\* decoded), and is answered with the EINVAL error frame.
C9_ShortBodyEINVAL ==
    \A i \in DOMAIN reqs :
        bodyLen(reqs[i]) < ExpectedBody(reqs[i].opcode) =>
            /\ reqs[i].pc \notin {"fs", "panicked"}
            /\ ~crashed
            /\ \A c \in fsCalls : c[1] # reqs[i].unique
            /\ \A k \in Replies(i) : dev[k].frame.error = -EINVAL
            /\ Handled(i) => Cardinality(Replies(i)) = 1

\* C10: Serve ends only on device-gone, returning nil; no other error
\* (among them a read shorter than an InHeader) ends it.
C10_OnlyDeviceGoneEndsServe ==
    servePc = "returned" => (serveRet = "nil" /\ ~mounted)

\* C11: when the device read fails with ENODEV, readRequest returns
\* ErrNotMounted and Serve returns nil; when it fails with EINTR, Serve
\* dispatches nothing, does not return, and its next step issues the read
\* again (unless the context was cancelled meanwhile).
C11_ReadErrors ==
    [][/\ (servePc = "blocked" /\ readErr'.errno = ENODEV) =>
              /\ readErr'.err = "ErrNotMounted"
              /\ servePc' = "returned"
              /\ serveRet' = "nil"
              /\ reqs' = reqs
              /\ wg' = wg
       /\ (servePc = "blocked" /\ readErr'.errno = EINTR) =>
              /\ servePc' = "check"
              /\ serveRet' = serveRet
              /\ reqs' = reqs
              /\ wg' = wg
       /\ (readErr.errno = EINTR /\ servePc' # servePc) =>
              (servePc' = "read" \/ cancelled)]_vars

\* C11 witness: after a request was dispatched, a read was interrupted and
\* the loop is back at its top.
C11_Witness ==
    /\ readErr.errno = EINTR
    /\ servePc = "check"
    /\ serveRet = "none"
    /\ reqs # << >>

\* INIT requests that passed the version validation of handleInit.
Negotiating ==
    { j \in DOMAIN reqs :
        /\ reqs[j].opcode = OpInit
        /\ reqs[j].major = FuseKernelVersion
        /\ reqs[j].minor >= MinSupportedMinor
        /\ reqs[j].pc # "spawned" }

\* Nothing of a negotiation is stored on the server or its connection.
NothingStored ==
    /\ ~initialized
    /\ protoMajor = 0
    /\ protoMinor = 0
    /\ config = NoConfig

\* C12: an INIT whose major is not 7 never reaches Filesystem.Init and
\* builds no Config; its only frame is a success frame whose InitOut has
\* major 7 and minor 41; and as long as no INIT passed the version
\* validation nothing is stored and the server is not initialized.
C12_MajorMismatch ==
    /\ \A i \in DOMAIN reqs :
           (reqs[i].opcode = OpInit /\ reqs[i].major # 7) =>
               /\ <<reqs[i].unique, "Init">> \notin fsCalls
               /\ reqs[i].cfg = NoConfig
               /\ \A k \in Replies(i) :
                      /\ dev[k].frame.error = 0
                      /\ dev[k].frame.payload = InitOutSize
                      /\ dev[k].frame.init.major = 7
                      /\ dev[k].frame.init.minor = 41
               /\ Handled(i) => Cardinality(Replies(i)) = 1
    /\ Negotiating = {} => NothingStored

\* C12 witness: an INIT with major 8 was answered and nothing is stored.
C12_Witness ==
    /\ NothingStored
    /\ \E i \in DOMAIN reqs :
           /\ reqs[i].opcode = OpInit
           /\ reqs[i].major = 8
           /\ reqs[i].pc = "done"
           /\ \E k \in Replies(i) : dev[k].frame.init.minor = 41

\* C13: an INIT with major 7 and minor below 26 never reaches
\* Filesystem.Init and builds no Config; its only frame is a 16-byte error
\* frame carrying -EPROTO; and as long as no INIT passed the version
\* validation nothing is stored and the server is not initialized.
C13_MinorTooOld ==
    /\ \A i \in DOMAIN reqs :
           (reqs[i].opcode = OpInit /\ reqs[i].major = 7
               /\ reqs[i].minor < 26) =>
               /\ <<reqs[i].unique, "Init">> \notin fsCalls
               /\ reqs[i].cfg = NoConfig
               /\ \A k \in Replies(i) :
                      /\ dev[k].frame.error = -EPROTO
                      /\ dev[k].frame.nbytes = OutHeaderSize
                      /\ dev[k].frame.init = NoInitOut
               /\ Handled(i) => Cardinality(Replies(i)) = 1
    /\ (\A j \in DOMAIN reqs : reqs[j].minor < 26 \/ reqs[j].major # 7)
           => NothingStored

\* C13 witness: an INIT 7.25 was answered with -EPROTO and nothing is
\* stored.
C13_Witness ==
    /\ NothingStored
    /\ \E i \in DOMAIN reqs :
           /\ reqs[i].opcode = OpInit
           /\ reqs[i].major = 7
           /\ reqs[i].minor = 25
           /\ reqs[i].pc = "done"
           /\ \E k \in Replies(i) : dev[k].frame.error = -EPROTO

\* The smaller of two numbers.
MinOf(a, b) == IF a < b THEN a ELSE b

\* C14: whenever a protocol version is stored on the connection, its major
\* is 7 and its minor is min(kernel minor, 41) of the latest INIT that
\* passed the version validation, hence between 26 and 41; the Config
\* handed to Filesystem.Init and the InitOut of the reply carry that same
\* minor.
C14_NegotiatedVersion ==
    /\ (protoMajor # 0 \/ protoMinor # 0 \/ config.set) =>
           /\ Negotiating # {}
           /\ LET last == CHOOSE j \in Negotiating :
                              \A k \in Negotiating : k <= j
              IN  /\ protoMajor = 7
                  /\ protoMinor = MinOf(reqs[last].minor, 41)
                  /\ 26 <= protoMinor /\ protoMinor <= 41
                  /\ config = reqs[last].cfg
    /\ \A i \in Negotiating :
           /\ reqs[i].cfg.set
           /\ reqs[i].cfg.ProtoMajor = 7
           /\ reqs[i].cfg.ProtoMinor = MinOf(reqs[i].minor, 41)
           /\ <<reqs[i].unique, "Init">> \in fsCalls
           /\ \A k \in Replies(i) :
                  dev[k].frame.error = 0 =>
                      /\ dev[k].frame.init.major = 7
                      /\ dev[k].frame.init.minor = reqs[i].cfg.ProtoMinor

\* C14 witness: after an INIT 7.26 and an INIT 7.42 that were both
\* answered with an InitOut, the connection holds 7.41.
C14_Witness ==
    /\ protoMajor = 7
    /\ protoMinor = 41
    /\ \E i, j \in DOMAIN reqs :
           /\ i < j
           /\ reqs[i].minor = 26 /\ reqs[i].major = 7
           /\ reqs[j].minor = 42 /\ reqs[j].major = 7
           /\ \E k \in Replies(i) : dev[k].frame.init.minor = 26
           /\ \E k \in Replies(j) : dev[k].frame.init.minor = 41

\* The always-advertised capabilities: async-read, parallel-dirops,
\* auto-inval-data, readdirplus, readdirplus-auto, cache-symlinks,
\* export-support, max-pages.
AdvertisedCaps ==
    CapAsyncRead \cup CapParallelDirops \cup CapAutoInvalData
        \cup CapReaddirplus \cup CapReaddirplusAuto \cup CapCacheSymlinks
        \cup CapExportSupport \cup CapMaxPages

\* The success frames written in answer to INIT request i.
InitOuts(i) == { k \in Replies(i) : dev[k].frame.error = 0 }

\* C15 as stated: the flags of every successful InitOut reply equal the
\* kernel-offered flags intersected with the always-advertised set.
C15_FlagsEveryInitOut ==
    \A i \in DOMAIN reqs :
        reqs[i].opcode = OpInit =>
            \A k \in InitOuts(i) :
                dev[k].frame.init.flags = reqs[i].flags \cap AdvertisedCaps

\* C15 amended: the flags of the InitOut that completes a negotiation
\* (major 7, minor at least 26, Init succeeded) equal the kernel-offered
\* flags intersected with the always-advertised set, hence the whole set
\* when the kernel offers every flag; the InitOut answering a major
\* mismatch carries no flags; the flags of every InitOut are a subset of
\* the kernel-offered flags.
C15_FlagsAmended ==
    \A i \in DOMAIN reqs :
        reqs[i].opcode = OpInit =>
            \A k \in InitOuts(i) :
                /\ dev[k].frame.init.flags \subseteq reqs[i].flags
                /\ i \in Negotiating =>
                       /\ dev[k].frame.init.flags =
                              reqs[i].flags \cap AdvertisedCaps
                       /\ reqs[i].flags = Uint32Bits =>
                              dev[k].frame.init.flags = AdvertisedCaps
                /\ i \notin Negotiating => dev[k].frame.init.flags = {}

\* C15 witness: a negotiation in which the kernel offered async-read,
\* posix-locks and readdirplus was answered with async-read and
\* readdirplus, and one in which it offered every flag with the whole set.
C15_Witness ==
    \E i, j \in Negotiating :
        /\ reqs[i].flags = CapAsyncRead \cup CapPosixLocks \cup CapReaddirplus
        /\ \E k \in InitOuts(i) :
               dev[k].frame.init.flags = CapAsyncRead \cup CapReaddirplus
        /\ reqs[j].flags = Uint32Bits
        /\ \E k \in InitOuts(j) : dev[k].frame.init.flags = AdvertisedCaps

\* INIT requests whose Filesystem.Init call returned an error.
InitFailed ==
    { i \in DOMAIN reqs :
        /\ reqs[i].opcode = OpInit
        /\ reqs[i].method = "Init"
        /\ reqs[i].err # NoErr }

\* C16: when Filesystem.Init returns an error, the INIT request gets that
\* errno as its single reply, a 16-byte error frame and no InitOut; the
\* step in which the handler takes the error leaves initialized, the
\* mount, the context, the descriptor and the Serve loop as they were;
\* and the server is initialized only if some other INIT succeeded.
C16_InitFailure ==
    /\ [](\A i \in InitFailed :
             /\ \A k \in Replies(i) :
                    /\ dev[k].frame.error = -reqs[i].err.no
                    /\ dev[k].frame.nbytes = OutHeaderSize
                    /\ dev[k].frame.init = NoInitOut
             /\ Handled(i) => Cardinality(Replies(i)) = 1
             /\ ~crashed
             /\ initialized =>
                    \E j \in Negotiating \ InitFailed :
                        reqs[j].pc \notin {"spawned", "fs"})
    /\ [][\A i \in DOMAIN reqs :
              (reqs[i].pc = "fs" /\ reqs[i].method = "Init"
                  /\ reqs'[i].err # NoErr) =>
                  /\ initialized' = initialized
                  /\ mounted' = mounted
                  /\ cancelled' = cancelled
                  /\ fd' = fd
                  /\ servePc' = servePc
                  /\ serveRet' = serveRet
                  /\ reqs'[i].pc = "send"]_vars

\* C16 witness: the first INIT failed in Filesystem.Init and was answered
\* with the error; a second INIT was then served and initialized the
\* server.
C16_Witness ==
    /\ 1 \in InitFailed
    /\ Ended(1)
    /\ \E k \in Replies(1) : dev[k].frame.error = -ENOENT
    /\ 2 \in Negotiating \ InitFailed
    /\ Ended(2)
    /\ \E k \in InitOuts(2) : dev[k].frame.init.major = 7
    /\ initialized

\* (n + 7) & ~7.
Pad8(n) == ((n + 7) \div 8) * 8

\* The bytes taken by the first n entries when each record has the given
\* fixed prefix.
RECURSIVE PrefixBytes(_, _, _)
PrefixBytes(prefix, entries, n) ==
    IF n = 0 THEN 0
    ELSE PrefixBytes(prefix, entries, n - 1)
             + Pad8(prefix + entries[n].NameLen)

\* The records in data are those of the longest prefix of entries that
\* fits the budget, each of its padded length.
LongestPrefix(prefix, entries, budget, data) ==
    /\ Len(data) <= Len(entries)
    /\ \A n \in 1 .. Len(data) :
           /\ data[n].ino = entries[n].Ino
           /\ data[n].namelen = entries[n].NameLen
           /\ data[n].reclen = Pad8(prefix + entries[n].NameLen)
           /\ data[n].reclen % 8 = 0
    /\ PrefixBytes(prefix, entries, Len(data)) <= budget
    /\ Len(data) < Len(entries) =>
           PrefixBytes(prefix, entries, Len(data) + 1) > budget

\* The success frames written in answer to request i.
Successes(i) == { k \in Replies(i) : dev[k].frame.error = 0 }

\* C17: the records of a READDIR reply are the longest prefix of the
\* entries ReadDir returned, in order, whose padded lengths
\* (24 + namelen + 7) & ~7 sum to at most the requested size; each record
\* carries its entry's inode, cookie and type; the payload is exactly
\* those records, so nothing is emitted when the first one does not fit.
C17_ReaddirPrefix ==
    \A i \in DOMAIN reqs :
        reqs[i].opcode = OpReaddir =>
            \A k \in Successes(i) :
                LET data == dev[k].frame.dirents
                    entries == reqs[i].entries
                IN  /\ LongestPrefix(24, entries, reqs[i].size, data)
                    /\ \A n \in 1 .. Len(data) :
                           /\ data[n].off = entries[n].Offset
                           /\ data[n].type = entries[n].Type
                    /\ dev[k].frame.payload =
                           PrefixBytes(24, entries, Len(data))
                    /\ dev[k].frame.payload <= reqs[i].size
                    /\ (entries # << >>
                           /\ Pad8(24 + entries[1].NameLen) > reqs[i].size)
                           => data = << >>

\* C17 witness: three entries with one-byte names and size 64 were
\* answered with the first two records, 64 bytes.
C17_Witness ==
    \E i \in DOMAIN reqs :
        /\ reqs[i].opcode = OpReaddir
        /\ reqs[i].size = 64
        /\ Len(reqs[i].entries) = 3
        /\ \A n \in 1 .. 3 : reqs[i].entries[n].NameLen = 1
        /\ \E k \in Successes(i) :
               /\ Len(dev[k].frame.dirents) = 2
               /\ dev[k].frame.payload = 64

\* C18: the records of a READDIRPLUS reply are the longest prefix of the
\* entries ReadDirPlus returned, in order, whose padded lengths
\* (152 + namelen + 7) & ~7 sum to at most the requested size; every
\* record length is a multiple of 8; the payload is exactly those records,
\* so nothing is emitted when the first one does not fit.
C18_ReaddirplusPrefix ==
    \A i \in DOMAIN reqs :
        reqs[i].opcode = OpReaddirplus =>
            \A k \in Successes(i) :
                LET data == dev[k].frame.dirents
                    entries == reqs[i].entries
                IN  /\ LongestPrefix(152, entries, reqs[i].size, data)
                    /\ dev[k].frame.payload =
                           PrefixBytes(152, entries, Len(data))
                    /\ dev[k].frame.payload <= reqs[i].size
                    /\ (entries # << >>
                           /\ Pad8(152 + entries[1].NameLen) > reqs[i].size)
                           => data = << >>

\* C18 witness: three entries with one-byte names (160 bytes each) and
\* size 320 were answered with the first two records, 320 bytes.
C18_Witness ==
    \E i \in DOMAIN reqs :
        /\ reqs[i].opcode = OpReaddirplus
        /\ reqs[i].size = 320
        /\ Len(reqs[i].entries) = 3
        /\ \E k \in Successes(i) :
               /\ Len(dev[k].frame.dirents) = 2
               /\ dev[k].frame.payload = 320

\* C19: in a READDIRPLUS reply the off word of a record is the entry's
\* resume cookie, so the records of one reply carry pairwise different
\* off values, also when their entries have the same generation.
C19_PlusCookies ==
    \A i \in DOMAIN reqs :
        reqs[i].opcode = OpReaddirplus =>
            \A k \in Successes(i) :
                LET data == dev[k].frame.dirents
                IN  \A n, m \in 1 .. Len(data) :
                        n # m => data[n].off # data[m].off

\* C20: for a BATCH_FORGET whose body is shorter than 8 + count * 16
\* bytes, the slice handed to Filesystem.BatchForget has exactly
\* floor((bodylen - 8) / 16) entries, capped at count, each equal to the
\* entry on the wire, and no reply is written.
C20_BatchForgetPrefix ==
    \A i \in DOMAIN reqs :
        (/\ reqs[i].opcode = OpBatchForget
         /\ bodyLen(reqs[i]) >= 8
         /\ bodyLen(reqs[i]) < 8 + reqs[i].count * 16
         /\ reqs[i].pc # "spawned") =>
            /\ <<reqs[i].unique, "BatchForget">> \in fsCalls
            /\ Len(reqs[i].forgot) =
                   MinOf(reqs[i].count, (bodyLen(reqs[i]) - 8) \div 16)
            /\ \A k \in 1 .. Len(reqs[i].forgot) :
                   reqs[i].forgot[k] = WireForget(k)
            /\ Replies(i) = {}

(***************************************************************************)
(* Handler errors: every kind of error a Filesystem method can return.     *)
(***************************************************************************)
\* Requests the kernel delivers in a run over the handlers' error values.
MaxErrors == 1

\* A syscall.Errno value whose number does not fit in the positive half of
\* a 32-bit word (syscall.Errno is a uintptr).
BigErrno == Wrap \div 2 + EIO

\* The sentinels toErrno's switch names.
SentinelKinds ==
    {"notexist", "exist", "permission", "closed", "invalid", "eof",
     "canceled", "deadline"}

\* The errors a Filesystem method returns: bare, wrapped and joined errno
\* values, the sentinels, and an error of no recognised kind.
ErrorValues ==
    { Errno(n) : n \in {ENOENT, ENOSYS, EACCES, BigErrno} }
        \cup {Wrapped(ENOSYS), Wrapped(ENOENT)}
        \cup {Joined("notexist", ENOSYS), Joined("eof", EACCES)}
        \cup { Sentinel(k) : k \in SentinelKinds \cup {"other"} }

\* Well-formed requests of handlers that return their method's error.
ErrorRequests ==
    WellFormed(KernelRequests({OpLookup, OpReadlink, OpRead, OpReaddirplus,
                               OpAccess}))

\* The handler of request i ends with any of the error values.
FsReturnAny(i) ==
    i \in DOMAIN reqs /\ handlerReturn(i, FsResultsOf(reqs[i], ErrorValues))

ErrorWorker(i) ==
    \/ handleRequest(i) /\ UNCHANGED auxVars
    \/ FsReturnAny(i) /\ UNCHANGED auxVars
    \/ WriteLock(i) /\ UNCHANGED auxVars
    \/ writeResponse(i) /\ UNCHANGED auxVars
    \/ WorkerDone(i) /\ UNCHANGED auxVars

NextErrors ==
    \/ ServeCheck /\ UNCHANGED auxVars
    \/ ServeIssueRead /\ UNCHANGED auxVars
    \/ ServeRead(ErrorRequests, MaxErrors, 1)
         /\ UNCHANGED auxVars
    \/ DeviceGone /\ UNCHANGED auxVars
    \/ \E i \in 1 .. MaxErrors : ErrorWorker(i)

SpecErrors == Init /\ [][NextErrors]_vars

\* The errno numbers POSIX defines that this module names.
PosixErrnos ==
    {ENOENT, EINTR, EIO, EBADF, EACCES, EEXIST, ENODEV, EINVAL, EROFS,
     ENOSYS, EPROTO, ETIMEDOUT}

\* The errno the specification's table assigns to a handler error.
TableErrno(e) ==
    IF e.kind \in {"errno", "wrapped", "errno+notexist", "errno+eof"}
    THEN -e.no
    ELSE CASE e.kind = "notexist" -> -ENOENT
           [] e.kind = "exist" -> -EEXIST
           [] e.kind = "permission" -> -EACCES
           [] e.kind = "closed" -> -EBADF
           [] e.kind = "invalid" -> -EINVAL
           [] e.kind = "eof" -> 0
           [] e.kind = "canceled" -> -EINTR
           [] e.kind = "deadline" -> -ETIMEDOUT
           [] OTHER -> -EIO

\* Requests whose Filesystem method returned an error.
Failed ==
    { i \in DOMAIN reqs :
        reqs[i].err # NoErr /\ reqs[i].pc \in {"send", "write", "release", "done"} }

\* C21: a handler error that is or wraps a POSIX errno is answered with
\* the negative of that errno, whatever else the error wraps; any other
\* error is answered by the table (not-exist ENOENT, exists EEXIST,
\* permission EACCES, closed EBADF, invalid EINVAL, end-of-file 0,
\* cancelled EINTR, deadline ETIMEDOUT, anything else EIO); the answer is
\* a header-only frame, and it is the frame written to the device.
C21_ErrnoMapping ==
    \A i \in Failed :
        LET e == reqs[i].err
        IN  (errorsAsErrno(e) => e.no \in PosixErrnos)
            => /\ reqs[i].out =
                    [NoFrame EXCEPT !.len = OutHeaderSize,
                                    !.error = TableErrno(e),
                                    !.unique = reqs[i].unique,
                                    !.nbytes = OutHeaderSize]
               /\ \A k \in Replies(i) : dev[k].frame = reqs[i].out
               /\ Handled(i) => Cardinality(Replies(i)) = 1

\* An error holding both not-exist and ENOSYS was answered -ENOSYS on the
\* device.
C21_Witness ==
    \E i \in Failed :
        /\ reqs[i].err = Joined("notexist", ENOSYS)
        /\ \E k \in Replies(i) : dev[k].frame.error = -ENOSYS

\* C22: the error word of every frame written to the device is 0 or
\* negative as a signed 32-bit integer.
C22_ErrorNeverPositive ==
    \A k \in DOMAIN dev : dev[k].frame.error <= 0

(***************************************************************************)
(* Conversions of mount.go: file modes and timeouts.                       *)
(***************************************************************************)
\* Wire mode bits and DT_* type tags (proto/types.go).
ModeSocket == 49152
ModeSymlink == 40960
ModeRegular == 32768
ModeBlock == 24576
ModeDir == 16384
ModeChar == 8192
ModeFifo == 4096
ModeSetuid == 2048
ModeSetgid == 1024
ModeSticky == 512
DtFifo == 1
DtChr == 2
DtDir == 4
DtBlk == 6
DtReg == 8
DtLnk == 10
DtSock == 12

\* time.Second in nanoseconds.
Second == 1000000000

\* An os.FileMode: the type bits that are set, the permission bits and the
\* three special bits.
FileMode(type, perm, setuid, setgid, sticky) ==
    [type |-> type, perm |-> perm, setuid |-> setuid, setgid |-> setgid,
     sticky |-> sticky]

\* The type bits of the os.FileMode of a file of each type: a character
\* device carries ModeDevice and ModeCharDevice, a block device ModeDevice.
HostType(t) ==
    CASE t = "directory" -> {"ModeDir"}
      [] t = "symlink" -> {"ModeSymlink"}
      [] t = "fifo" -> {"ModeNamedPipe"}
      [] t = "socket" -> {"ModeSocket"}
      [] t = "char-device" -> {"ModeDevice", "ModeCharDevice"}
      [] t = "block-device" -> {"ModeDevice"}
      [] OTHER -> {}

FileTypes ==
    {"regular", "directory", "symlink", "fifo", "socket", "char-device",
     "block-device"}

\* Permission bits: none, 0644, 0755, 0777.
Perms == {0, 420, 493, 511}

\* The modes a Filesystem reports in an Attr.
FileModes ==
    { FileMode(HostType(t), p, su, sg, st) :
        t \in FileTypes, p \in Perms, su \in BOOLEAN, sg \in BOOLEAN,
        st \in BOOLEAN }

\* fileModeToUnix: the switch compares mode.Type(), all the type bits of
\* the mode, with one bit at a time.
fileModeToUnix(mode) ==
    LET perm == mode.perm
        type == CASE mode.type = {"ModeDir"} -> ModeDir
                  [] mode.type = {"ModeSymlink"} -> ModeSymlink
                  [] mode.type = {"ModeNamedPipe"} -> ModeFifo
                  [] mode.type = {"ModeSocket"} -> ModeSocket
                  [] mode.type = {"ModeDevice"} ->
                        IF "ModeCharDevice" \in mode.type
                        THEN ModeChar
                        ELSE ModeBlock
                  [] OTHER -> ModeRegular
    IN  Uint32(perm + type
               + (IF mode.setuid THEN ModeSetuid ELSE 0)
               + (IF mode.setgid THEN ModeSetgid ELSE 0)
               + (IF mode.sticky THEN ModeSticky ELSE 0))

\* fileModeToType.
fileModeToType(mode) ==
    CASE mode.type = {"ModeDir"} -> DtDir
      [] mode.type = {"ModeSymlink"} -> DtLnk
      [] mode.type = {"ModeNamedPipe"} -> DtFifo
      [] mode.type = {"ModeSocket"} -> DtSock
      [] mode.type = {"ModeDevice"} ->
            IF "ModeCharDevice" \in mode.type THEN DtChr ELSE DtBlk
      [] OTHER -> DtReg

MutDurationRoundsUp(d) ==
    [sec |-> (d + Second - 1) \div Second,
     nsec |-> Uint32((Second - (d % Second)) % Second)]

\* durationToTimespec, for the durations d >= 0 of the model (on them Go's
\* truncating / and % are \div and %).
durationToTimespec(d) ==
    [sec |-> d \div Second, nsec |-> Uint32(d % Second)]

\* Timeouts a Filesystem puts in an Entry, in nanoseconds.
Durations ==
    {0, 1, Second - 1, Second, Second + 1, Second + Second \div 2,
     2 * Second, 2 * Second + 1}

\* attrToProto converts the mode of an Attr.
ConvertMode ==
    /\ \E mode \in FileModes :
         conv' = [fn |-> "fileModeToUnix", arg |-> mode,
                  out |-> fileModeToUnix(mode)]
    /\ UNCHANGED <<progVars, notConv>>

\* serializeDirentsPlus derives the type tag of an entry.
ConvertType ==
    /\ \E mode \in FileModes :
         conv' = [fn |-> "fileModeToType", arg |-> mode,
                  out |-> fileModeToType(mode)]
    /\ UNCHANGED <<progVars, notConv>>

\* entryToProto converts a timeout of an Entry.
ConvertDuration ==
    /\ \E d \in Durations :
         conv' = [fn |-> "durationToTimespec", arg |-> d,
                  out |-> durationToTimespec(d)]
    /\ UNCHANGED <<progVars, notConv>>

NextConvert ==
    \/ ConvertMode
    \/ ConvertType
    \/ ConvertDuration

SpecConvert == Init /\ [][NextConvert]_vars

\* The file type whose host mode has the given type bits.
TypeOf(mode) == CHOOSE t \in FileTypes : HostType(t) = mode.type

\* The S_IF* code of a file type.
SIFMT(t) ==
    CASE t = "regular" -> ModeRegular
      [] t = "directory" -> ModeDir
      [] t = "symlink" -> ModeSymlink
      [] t = "fifo" -> ModeFifo
      [] t = "socket" -> ModeSocket
      [] t = "char-device" -> ModeChar
      [] t = "block-device" -> ModeBlock

\* The DT_* tag of a file type.
DTOf(t) ==
    CASE t = "regular" -> DtReg
      [] t = "directory" -> DtDir
      [] t = "symlink" -> DtLnk
      [] t = "fifo" -> DtFifo
      [] t = "socket" -> DtSock
      [] t = "char-device" -> DtChr
      [] t = "block-device" -> DtBlk

\* C23: the wire mode of a host mode is the S_IF* code of its file type
\* plus its nine permission bits plus setuid, setgid and sticky exactly
\* when set in the host mode, and the DT_* tag of a host mode is the tag of
\* its file type, for each of the seven file types.
C23_ModePreserved ==
    /\ conv.fn = "fileModeToUnix" =>
         conv.out = SIFMT(TypeOf(conv.arg)) + conv.arg.perm
                    + (IF conv.arg.setuid THEN ModeSetuid ELSE 0)
                    + (IF conv.arg.setgid THEN ModeSetgid ELSE 0)
                    + (IF conv.arg.sticky THEN ModeSticky ELSE 0)
    /\ conv.fn = "fileModeToType" => conv.out = DTOf(TypeOf(conv.arg))

\* C24: for a duration d >= 0, durationToTimespec(d) is (sec, nsec) with
\* sec = floor(d / 1s), 0 <= nsec < 10^9 and sec * 10^9 + nsec = d; the
\* zero duration gives (0, 0).
C24_FloorDivision ==
    (conv.fn = "durationToTimespec" /\ conv.arg >= 0) =>
        /\ conv.out.sec * Second <= conv.arg
        /\ conv.out.nsec >= 0
        /\ conv.out.nsec < Second
        /\ conv.out.sec * Second + conv.out.nsec = conv.arg
        /\ (conv.arg = 0 => conv.out = [sec |-> 0, nsec |-> 0])

\* A timeout of one and a half seconds was converted to (1, 500000000).
C24_Witness ==
    /\ conv.fn = "durationToTimespec"
    /\ conv.arg = Second + Second \div 2
    /\ conv.out = [sec |-> 1, nsec |-> Second \div 2]

(***************************************************************************)
(* The buffer pool used by concurrent tasks.                               *)
(***************************************************************************)
\* The tasks that call get and put.
PoolTasks == {1, 2}

\* Sizes newBufferPool is called with: below, at and above the floor, and
\* the size Mount computes from the default MaxWrite.
RequestedSizes ==
    {0, MinBufferSize - 1, MinBufferSize,
     DefaultMaxWrite + InHeaderSize + 4096}

\* What a task may pass to put when it has the buffer buf: buf itself,
\* buf[:n] (same capacity) or buf[n:] (smaller capacity).
Slices(buf) ==
    {buf, [buf EXCEPT !.len = InHeaderSize],
     [buf EXCEPT !.len = buf.len - InHeaderSize,
                 !.cap = buf.cap - InHeaderSize]}

\* Capacities of the buffers a task allocates itself and passes to put.
ForeignCaps == {MinBufferSize, 2 * MinBufferSize}

InitPool ==
    /\ ServerInit
    /\ conv = NoConv
    /\ \E size \in RequestedSizes : bufPool = newBufferPool(size)
    /\ held = [h \in Holders |-> NoBuf]
    /\ allocs = 0
    /\ rejected = {}
    /\ ctxs = {}
    /\ CoordInit
    /\ CloneInit

\* A task calls get.
TaskGet(t) ==
    /\ held[t] = NoBuf
    /\ \E o \in get(bufPool, allocs) :
         /\ held' = [held EXCEPT ![t] = o.buf]
         /\ bufPool' = [bufPool EXCEPT !.items = o.items]
         /\ allocs' = o.allocs
    /\ UNCHANGED <<progVars, notPool, rejected>>

\* A task calls put with the buffer it holds, or with a slice of it, and
\* keeps no reference to it.
TaskPut(t) ==
    /\ held[t] # NoBuf
    /\ \E b \in Slices(held[t]) :
         /\ bufPool' = [bufPool EXCEPT !.items = put(bufPool, b)]
         /\ rejected' = IF b.cap = bufPool.size
                        THEN rejected
                        ELSE rejected \cup {b.id}
    /\ held' = [held EXCEPT ![t] = NoBuf]
    /\ UNCHANGED <<progVars, notPool, allocs>>

\* A task calls put with a buffer it allocated itself.
TaskPutForeign(t) ==
    /\ held[t] = NoBuf
    /\ allocs < MaxBufs
    /\ \E c \in ForeignCaps :
         LET b == [id |-> allocs + 1, len |-> c, cap |-> c]
         IN  /\ bufPool' = [bufPool EXCEPT !.items = put(bufPool, b)]
             /\ rejected' = IF c = bufPool.size
                            THEN rejected
                            ELSE rejected \cup {b.id}
    /\ allocs' = allocs + 1
    /\ UNCHANGED <<progVars, notPool, held>>

\* The garbage collector drops an item of the sync.Pool.
PoolGC ==
    /\ \E h \in BagToSet(bufPool.items) :
         bufPool' = [bufPool EXCEPT !.items = bufPool.items (-) SetToBag({h})]
    /\ UNCHANGED <<progVars, notPool, held, allocs, rejected>>

NextPool ==
    \/ \E t \in PoolTasks : TaskGet(t)
    \/ \E t \in PoolTasks : TaskPut(t)
    \/ \E t \in PoolTasks : TaskPutForeign(t)
    \/ PoolGC

SpecPool == InitPool /\ [][NextPool]_vars

\* C25: the pool size is max(requested size, 8192); every buffer a task
\* got from get and every item waiting in the pool has length and
\* capacity equal to the pool size; the array of a buffer that put
\* rejected for its capacity is neither in the pool nor held by a task.
C25_PoolBuffers ==
    /\ bufPool.size = IF bufPool.arg > MinBufferSize
                      THEN bufPool.arg
                      ELSE MinBufferSize
    /\ \A t \in PoolTasks :
         held[t] # NoBuf =>
            /\ held[t].len = bufPool.size
            /\ held[t].cap = bufPool.size
            /\ held[t].id \notin rejected
    /\ \A h \in BagToSet(bufPool.items) :
         /\ h.len = bufPool.size
         /\ h.cap = bufPool.size
         /\ h.id \notin rejected

\* A pool asked for less than the floor took back a buffer of the right
\* capacity that came in shortened, rejected another one, and a task got a
\* buffer out of the pool again.
C25_Witness ==
    /\ bufPool.arg < MinBufferSize
    /\ bufPool.size = MinBufferSize
    /\ rejected # {}
    /\ \E t \in PoolTasks : held[t] # NoBuf /\ held[t].id < allocs
    /\ BagToSet(bufPool.items) # {}

(***************************************************************************)
(* The server's use of the buffer pool: readRequest and request.release.   *)
(***************************************************************************)
\* request.release: the items of the pool after r.release(), buf being
\* r.data (NoBuf once released).
release(p, buf) ==
    IF buf # NoBuf
    THEN put(p, [buf EXCEPT !.len = buf.cap])
    ELSE p.items

\* readRequest: buf := pool.get(), then syscall.Read is entered.
BufIssueRead ==
    /\ ServeIssueRead
    /\ \E o \in get(bufPool, allocs) :
         /\ held' = [held EXCEPT ![0] = o.buf]
         /\ bufPool' = [bufPool EXCEPT !.items = o.items]
         /\ allocs' = o.allocs
    /\ UNCHANGED <<notPool, rejected>>

\* The requests of the runs that follow the buffers: a LOOKUP with a
\* name, a FORGET with its body and a FORGET without one.
BufRequests ==
    { k \in KernelRequests({OpLookup, OpForget}) :
        \/ k.opcode = OpLookup /\ k.n > InHeaderSize
        \/ k.opcode = OpForget /\ k.n = InHeaderSize + ForgetInSize
        \/ k.opcode = OpForget /\ k.n = InHeaderSize }

\* readRequest after syscall.Read: pool.put(buf) on an error or a short
\* read, else newRequest(buf[:n], pool), handed to a new worker.  The
\* kernel keeps at most two requests outstanding.
BufServeRead ==
    /\ ServeRead(BufRequests, MaxBufReqs, 2)
    /\ IF Len(reqs') > Len(reqs)
       THEN /\ held' = [held EXCEPT
                          ![0] = NoBuf,
                          ![Len(reqs')] =
                              [held[0] EXCEPT !.len = reqs'[Len(reqs')].n]]
            /\ UNCHANGED bufPool
       ELSE /\ bufPool' = [bufPool EXCEPT !.items = put(bufPool, held[0])]
            /\ held' = [held EXCEPT ![0] = NoBuf]
    /\ UNCHANGED <<notPool, allocs, rejected>>

\* handleRequest; when it panics the deferred r.release() runs before the
\* process dies.
BufHandleRequest(i) ==
    /\ handleRequest(i)
    /\ IF reqs'[i].pc = "panicked"
       THEN /\ bufPool' = [bufPool EXCEPT !.items = release(bufPool, held[i])]
            /\ held' = [held EXCEPT ![i] = NoBuf]
       ELSE UNCHANGED <<bufPool, held>>
    /\ UNCHANGED <<notPool, allocs, rejected>>

\* The goroutine's deferred r.release() and s.wg.Done().
BufWorkerDone(i) ==
    /\ WorkerDone(i)
    /\ bufPool' = [bufPool EXCEPT !.items = release(bufPool, held[i])]
    /\ held' = [held EXCEPT ![i] = NoBuf]
    /\ UNCHANGED <<notPool, allocs, rejected>>

BufWorker(i) ==
    \/ BufHandleRequest(i)
    \/ FsReturn(i) /\ UNCHANGED auxVars
    \/ WriteLock(i) /\ UNCHANGED auxVars
    \/ writeResponse(i) /\ UNCHANGED auxVars
    \/ BufWorkerDone(i)

\* The read loop and its workers with the buffers they use, while the
\* session stays mounted.
NextBuffers ==
    \/ ServeCheck /\ UNCHANGED auxVars
    \/ BufIssueRead
    \/ BufServeRead
    \/ PoolGC
    \/ \E i \in 1 .. MaxBufReqs : BufWorker(i)

SpecBuffers == Init /\ [][NextBuffers]_vars

\* How many times the array id is in the pool.
Pooled(items, id) ==
    CopiesIn([id |-> id, len |-> bufPool.size, cap |-> bufPool.size], items)

\* The requests whose worker has not ended.
InFlight == { i \in DOMAIN reqs : ~Ended(i) }

\* In no state do two holders have the same buffer or is a held buffer in
\* the pool, and a request has its buffer exactly while it is in flight.
BuffersOwned ==
    /\ \A h \in BagToSet(bufPool.items) :
         /\ h = [id |-> h.id, len |-> bufPool.size, cap |-> bufPool.size]
         /\ CopiesIn(h, bufPool.items) = 1
    /\ \A x \in Holders :
         held[x] # NoBuf =>
            /\ Pooled(bufPool.items, held[x].id) = 0
            /\ \A y \in Holders \ {x} : held[y].id # held[x].id
    /\ \A i \in DOMAIN reqs : (i \in InFlight) = (held[i] # NoBuf)
    /\ \A x \in Holders : x > Len(reqs) => held[x] = NoBuf

\* A step of readRequest that fails or reads short gives the buffer back
\* and creates no request.
FailedReadReturns ==
    (servePc = "blocked" /\ servePc' # "blocked" /\ Len(reqs') = Len(reqs))
        => /\ reqs' = reqs
           /\ held'[0] = NoBuf
           /\ Pooled(bufPool'.items, held[0].id) = 1

\* A step in which a buffer enters the pool: it is one buffer, given up by
\* its holder, the reader after a failed read or a request whose handler
\* and response write are over.
ReturnedOnce ==
    \A id \in 1 .. MaxBufs :
        Pooled(bufPool'.items, id) > Pooled(bufPool.items, id)
            => \E x \in Holders :
                 /\ held[x].id = id
                 /\ held'[x] = NoBuf
                 /\ x = 0 => servePc = "blocked" /\ Len(reqs') = Len(reqs)
                 /\ x > 0 => /\ reqs[x].pc \in {"release", "spawned"}
                             /\ reqs'[x].pc \in {"done", "panicked"}
                             /\ reqs[x].pc = "spawned" =>
                                   reqs'[x].pc = "panicked"

\* A request gives up its buffer only in the step that ends its worker.
KeptUntilEnd ==
    \A i \in DOMAIN reqs :
        (held[i] # NoBuf /\ held'[i] = NoBuf)
            => /\ i \notin InFlight'
               /\ Pooled(bufPool'.items, held[i].id) = 1

\* C26: a buffer from the pool belongs to one in-flight request and goes
\* back exactly once: readRequest returns it on a failed or short read
\* and creates no request; otherwise the request keeps it until its
\* handler and response write are over, then returns it once; no two
\* in-flight requests share a buffer.
C26_BufferOwnership ==
    /\ []BuffersOwned
    /\ [][FailedReadReturns /\ ReturnedOnce /\ KeptUntilEnd]_vars

\* Two requests are in flight, one of them writing its response, while a
\* buffer that was returned waits in the pool.
C26_Witness ==
    /\ Cardinality(InFlight) = 2
    /\ \E i \in DOMAIN reqs : reqs[i].pc = "write"
    /\ BagToSet(bufPool.items) # {}

\* The kernel delivers its next request to the blocked read.
Delivery ==
    /\ ServeRead(WellFormed(KernelRequests(SampleOpcodes)), MaxReqs, MaxReqs)
    /\ Len(reqs') = Len(reqs) + 1
    /\ UNCHANGED auxVars

\* Requests whose Filesystem call has not returned.
InFs == { i \in DOMAIN reqs : reqs[i].pc = "fs" }

\* C27: the reader never waits for a worker: whatever the workers of the
\* requests read so far are doing (a Filesystem call that has not
\* returned included), the loop can take its next step, and a request the
\* kernel has ready is read and handed to a new worker; the requests are
\* taken in the order the kernel sent them.
C27_ReaderNeverWaits ==
    /\ (~crashed /\ servePc = "check") => ENABLED ServeCheck
    /\ (~crashed /\ servePc = "read") => ENABLED ServeIssueRead
    /\ (~crashed /\ servePc = "blocked" /\ readFd # ClosedFd /\ mounted
            /\ Len(reqs) < MaxReqs)
         => ENABLED Delivery
    /\ \A i \in DOMAIN reqs : reqs[i].unique = KernelUnique(i)

\* The second request was read, dispatched and answered on the device
\* while the Filesystem call of the first one had not returned.
C27_Witness ==
    /\ Len(reqs) = 2
    /\ reqs[1].pc = "fs"
    /\ reqs[2].method = "Lookup"
    /\ Ended(2)
    /\ Len(dev) = 1
    /\ dev[1].by = 2
    /\ servePc = "blocked"

(***************************************************************************)
(* The Context handed to the Filesystem methods.                           *)
(***************************************************************************)
\* Requests the kernel delivers in a run that follows the contexts.
MaxCalls == 2

MutNewContextBackground(req) ==
    [parent |-> "background", uid |-> req.uid, gid |-> req.gid,
     pid |-> req.pid, unique |-> req.unique]

\* Server.newContext: newContext(s.ctx, header.Uid, header.Gid,
\* header.Pid, header.Unique).
newContext(req) ==
    [parent |-> "s.ctx", uid |-> req.uid, gid |-> req.gid, pid |-> req.pid,
     unique |-> req.unique]

\* ctx.Err() # nil, as the Filesystem method holding ctx observes it: the
\* embedded parent decides.
Done(ctx) == ctx.parent = "s.ctx" /\ cancelled

\* handleRequest, with the Context its handler builds for the Filesystem
\* method it enters.
CtxHandleRequest(i) ==
    /\ handleRequest(i)
    /\ ctxs' = IF reqs'[i].pc = "fs"
               THEN ctxs \cup {[call |-> <<reqs[i].unique, reqs'[i].method>>,
                                ctx |-> newContext(reqs[i])]}
               ELSE ctxs
    /\ UNCHANGED notCtx

CtxWorker(i) ==
    \/ CtxHandleRequest(i)
    \/ FsReturn(i) /\ UNCHANGED auxVars
    \/ WriteLock(i) /\ UNCHANGED auxVars
    \/ writeResponse(i) /\ UNCHANGED auxVars
    \/ WorkerDone(i) /\ UNCHANGED auxVars

\* Well-formed requests of handlers that call the Filesystem.
CtxRequests == WellFormed(KernelRequests({OpLookup, OpForget}))

\* The read loop, its workers and one caller of Unmount.
NextContext ==
    \/ ServeCheck /\ UNCHANGED auxVars
    \/ ServeIssueRead /\ UNCHANGED auxVars
    \/ ServeRead(CtxRequests, MaxCalls, MaxCalls)
         /\ UNCHANGED auxVars
    \/ \E i \in 1 .. MaxCalls : CtxWorker(i)
    \/ Unmount(1)

SpecContext == Init /\ [][NextContext]_vars

\* The Context of the Filesystem call <<unique, method>>.
ContextsOf(call) == { c.ctx : c \in { x \in ctxs : x.call = call } }

\* Every Filesystem call got one Context, carrying the uid, gid, pid and
\* unique of its request's header, and that Context is cancelled exactly
\* when the server's signal is; an Unmount that is past its first step has
\* given the signal.
ContextsFollowServer ==
    /\ \A call \in fsCalls :
         /\ Cardinality(ContextsOf(call)) = 1
         /\ \A c \in ContextsOf(call) :
              /\ \E i \in DOMAIN reqs :
                   /\ reqs[i].unique = call[1]
                   /\ c.unique = reqs[i].unique
                   /\ c.unique = KernelUnique(i)
                   /\ c.uid = KernelUid(i)
                   /\ c.gid = KernelGid(i)
                   /\ c.pid = KernelPid(i)
              /\ Done(c) = cancelled
    /\ \A x \in ctxs : x.call \in fsCalls
    /\ \A u \in UnmountCallers : um[u] # "idle" => cancelled

\* C28: every Filesystem call receives a Context with the uid, gid, pid
\* and unique of its request's header whose cancellation is the server's
\* cancel signal; Unmount gives the signal before it unmounts, the signal
\* is never withdrawn, and from then on every Context, of a call in
\* flight or of a later one, is cancelled.
C28_ContextCancellation ==
    /\ []ContextsFollowServer
    /\ [][/\ cancelled => cancelled'
          /\ \A u \in UnmountCallers :
               (um[u] = "unmount" /\ um'[u] # "unmount") => cancelled]_vars

\* Unmount has given the signal and not yet unmounted, and the two calls
\* in flight hold Contexts that are now cancelled.
C28_Witness ==
    /\ cancelled
    /\ Len(reqs) = 2
    /\ reqs[1].pc = "fs"
    /\ reqs[2].pc = "fs"
    /\ \A call \in fsCalls : \A c \in ContextsOf(call) : Done(c)
    /\ \E u \in UnmountCallers : um[u] = "unmount"

(***************************************************************************)
(* sharing.Coordinator: AcceptWorker, Close, and the worker processes'     *)
(* ConnectToCoordinator.  A connection is named by the worker process      *)
(* that dialled it.                                                        *)
(***************************************************************************)
\* The pids worker processes register with.
WorkerPids == {501, 502}

\* The steps of the coordinator's handoff on one connection, in order.
Handoff == <<"read-reg", "clone", "write-resp", "send-fd", "register">>

MutAccSendFDFailureRegisters(ok) ==
    IF ok
    THEN [pc |-> "register", sent |-> TRUE, closeFd |-> FALSE]
    ELSE [pc |-> "register", sent |-> FALSE, closeFd |-> FALSE]

\* AcceptWorker after SendFD(conn, clonedFd) returned: where it goes on,
\* whether the descriptor went out, whether it closes the clone and the
\* socket.
afterSendFD(ok) ==
    IF ok
    THEN [pc |-> "register", sent |-> TRUE, closeFd |-> FALSE]
    ELSE [pc |-> "idle", sent |-> FALSE, closeFd |-> TRUE]

\* AcceptWorker returns: its activation record is gone.
accReturn(r) == [acc EXCEPT !.pc = "idle", !.conn = 0, !.pid = 0, !.ret = r]

\* conn.Close() on the coordinator's end of connection c.
srvClose(c) == [socks EXCEPT ![c].srv = "closed"]

\* AcceptWorker: the test of c.closed under closeMu.
AccCheck ==
    /\ acc.pc = "idle"
    /\ acc.calls <= MaxWorkers
    /\ acc' = IF coClosed
              THEN [accReturn("closed") EXCEPT !.calls = acc.calls + 1]
              ELSE [acc EXCEPT !.pc = "accept", !.ret = "none",
                               !.calls = acc.calls + 1]
    /\ UNCHANGED <<coClosed, listener, workers, socks, cloned, closePc, cli,
                   steps>>

\* AcceptWorker: c.listener.AcceptUnix().
AccAccept ==
    /\ acc.pc = "accept"
    /\ IF listener = "closed"
       THEN /\ acc' = accReturn("error")
            /\ UNCHANGED socks
       ELSE \E c \in Clients :
              /\ socks[c].state = "pending"
              /\ socks' = [socks EXCEPT ![c].state = "accepted",
                                         ![c].srv = "open"]
              /\ acc' = [acc EXCEPT !.pc = "decode", !.conn = c]
    /\ UNCHANGED <<coClosed, listener, workers, cloned, closePc, cli, steps>>

\* AcceptWorker: dec.Decode(&reg); on an error conn.Close() and return.
AccDecode ==
    /\ acc.pc = "decode"
    /\ LET c == acc.conn
       IN  IF socks[c].toSrv # << >>
           THEN /\ socks' = [socks EXCEPT ![c].toSrv = Tail(@)]
                /\ acc' = [acc EXCEPT !.pc = "clone",
                                      !.pid = Head(socks[c].toSrv).pid]
                /\ steps' = [steps EXCEPT ![c] = Append(@, "read-reg")]
           ELSE /\ socks[c].cli = "closed"
                /\ socks' = srvClose(c)
                /\ acc' = accReturn("error")
                /\ steps' = [steps EXCEPT ![c] = Append(@, "close")]
    /\ UNCHANGED <<coClosed, listener, workers, cloned, closePc, cli>>

\* AcceptWorker: CloneFuseFD(c.masterFd), which may fail.
AccClone ==
    /\ acc.pc = "clone"
    /\ \E ok \in BOOLEAN :
         IF ok
         THEN /\ cloned' = [cloned EXCEPT ![acc.conn] = "open"]
              /\ acc' = [acc EXCEPT !.pc = "respond"]
              /\ steps' = [steps EXCEPT ![acc.conn] = Append(@, "clone")]
         ELSE /\ acc' = [acc EXCEPT !.pc = "refuse"]
              /\ steps' = [steps EXCEPT
                             ![acc.conn] = Append(@, "clone-failed")]
              /\ UNCHANGED cloned
    /\ UNCHANGED <<coClosed, listener, workers, socks, closePc, cli>>

\* AcceptWorker after a failed clone: Encode of {Success: false, Error}
\* (its result is dropped), conn.Close(), return.
AccRefuse ==
    /\ acc.pc = "refuse"
    /\ \E ok \in BOOLEAN :
         LET c == acc.conn
             msg == [type |-> "resp", success |-> FALSE, error |-> "clone"]
         IN  /\ socks' = [socks EXCEPT
                            ![c].toCli = IF ok THEN Append(@, msg) ELSE @,
                            ![c].srv = "closed"]
             /\ steps' = [steps EXCEPT
                            ![c] = @ \o (IF ok THEN <<"write-refusal">>
                                         ELSE << >>) \o <<"close">>]
    /\ acc' = accReturn("error")
    /\ UNCHANGED <<coClosed, listener, workers, cloned, closePc, cli>>

\* AcceptWorker: Encode of {Success: true}; on an error close the clone
\* and the socket and return.
AccRespond ==
    /\ acc.pc = "respond"
    /\ \E ok \in BOOLEAN :
         LET c == acc.conn
             msg == [type |-> "resp", success |-> TRUE, error |-> ""]
         IN  IF ok
             THEN /\ socks' = [socks EXCEPT ![c].toCli = Append(@, msg)]
                  /\ acc' = [acc EXCEPT !.pc = "sendfd"]
                  /\ steps' = [steps EXCEPT ![c] = Append(@, "write-resp")]
                  /\ UNCHANGED cloned
             ELSE /\ socks' = srvClose(c)
                  /\ cloned' = [cloned EXCEPT ![c] = "closed"]
                  /\ acc' = accReturn("error")
                  /\ steps' = [steps EXCEPT ![c] = Append(@, "close")]
    /\ UNCHANGED <<coClosed, listener, workers, closePc, cli>>

\* AcceptWorker: SendFD(conn, clonedFd); on an error close the clone and
\* the socket and return.
AccSendFD ==
    /\ acc.pc = "sendfd"
    /\ \E ok \in BOOLEAN :
         LET c == acc.conn
             a == afterSendFD(ok)
         IN  /\ socks' = [socks EXCEPT
                            ![c].toCli = IF a.sent
                                         THEN Append(@, [type |-> "fd"])
                                         ELSE @,
                            ![c].srv = IF a.closeFd THEN "closed" ELSE @]
             /\ cloned' = [cloned EXCEPT
                             ![c] = IF a.closeFd THEN "closed" ELSE @]
             /\ steps' = [steps EXCEPT
                            ![c] = Append(@, IF a.sent THEN "send-fd"
                                             ELSE "close")]
             /\ acc' = IF a.pc = "idle"
                       THEN accReturn("error")
                       ELSE [acc EXCEPT !.pc = a.pc]
    /\ UNCHANGED <<coClosed, listener, workers, closePc, cli>>

\* AcceptWorker: c.workers[reg.PID] = worker under workersMu, and return.
AccRegister ==
    /\ acc.pc = "register"
    /\ workers' = [p \in DOMAIN workers \cup {acc.pid} |->
                     IF p = acc.pid THEN acc.conn ELSE workers[p]]
    /\ steps' = [steps EXCEPT ![acc.conn] = Append(@, "register")]
    /\ acc' = accReturn("ok")
    /\ UNCHANGED <<coClosed, listener, socks, cloned, closePc, cli>>

\* Close: c.closed = true under closeMu.
CloseFlag ==
    /\ closePc = "idle"
    /\ coClosed' = TRUE
    /\ closePc' = "workers"
    /\ UNCHANGED <<listener, workers, socks, cloned, acc, cli, steps>>

\* Close: under workersMu, Worker.Close() on every worker of the table
\* (its socket and its cloned descriptor), and a new empty table.
CloseWorkers ==
    /\ closePc = "workers"
    /\ LET tracked == { workers[p] : p \in DOMAIN workers }
       IN  /\ socks' = [c \in Clients |->
                          IF c \in tracked
                          THEN [socks[c] EXCEPT !.srv = "closed"]
                          ELSE socks[c]]
           /\ cloned' = [c \in Clients |->
                           IF c \in tracked THEN "closed" ELSE cloned[c]]
    /\ workers' = << >>
    /\ closePc' = "listener"
    /\ UNCHANGED <<coClosed, listener, acc, cli, steps>>

\* Close: c.listener.Close(); connections nobody accepted are reset.
CloseListener ==
    /\ closePc = "listener"
    /\ listener' = "closed"
    /\ socks' = [c \in Clients |->
                   IF socks[c].state = "pending"
                   THEN [socks[c] EXCEPT !.state = "reset", !.srv = "closed"]
                   ELSE socks[c]]
    /\ closePc' = "done"
    /\ UNCHANGED <<coClosed, workers, cloned, acc, cli, steps>>

\* ConnectToCoordinator returns an error after conn.Close().
cliFail(w) ==
    /\ cli' = [cli EXCEPT ![w].pc = "returned", ![w].ret = "error"]
    /\ socks' = [socks EXCEPT ![w].cli = "closed"]

\* ConnectToCoordinator: net.DialUnix.
CliDial(w) ==
    /\ cli[w].pc = "start"
    /\ IF listener = "open"
       THEN /\ socks' = [socks EXCEPT ![w].state = "pending",
                                      ![w].cli = "open"]
            /\ cli' = [cli EXCEPT ![w].pc = "register"]
       ELSE /\ cli' = [cli EXCEPT ![w].pc = "returned", ![w].ret = "error"]
            /\ UNCHANGED socks
    /\ UNCHANGED <<coClosed, listener, workers, cloned, acc, closePc, steps>>

\* ConnectToCoordinator: Encode of RegisterMessage{PID: pid}.
CliRegister(w) ==
    /\ cli[w].pc = "register"
    /\ \/ \E pid \in WorkerPids :
            /\ socks[w].srv # "closed"
            /\ socks' = [socks EXCEPT
                           ![w].toSrv = Append(@, [type |-> "reg",
                                                   pid |-> pid])]
            /\ cli' = [cli EXCEPT ![w].pc = "response", ![w].pid = pid]
       \/ cliFail(w)
    /\ UNCHANGED <<coClosed, listener, workers, cloned, acc, closePc, steps>>

\* ConnectToCoordinator: Decode of the ResponseMessage.
CliResponse(w) ==
    /\ cli[w].pc = "response"
    /\ IF socks[w].toCli # << >>
       THEN IF Head(socks[w].toCli).type = "resp"
               /\ Head(socks[w].toCli).success
            THEN /\ socks' = [socks EXCEPT ![w].toCli = Tail(@)]
                 /\ cli' = [cli EXCEPT ![w].pc = "receive"]
            ELSE /\ cli' = [cli EXCEPT ![w].pc = "returned",
                                       ![w].ret = "error"]
                 /\ socks' = [socks EXCEPT ![w].toCli = Tail(@),
                                           ![w].cli = "closed"]
       ELSE /\ socks[w].srv = "closed"
            /\ cliFail(w)
    /\ UNCHANGED <<coClosed, listener, workers, cloned, acc, closePc, steps>>

\* ConnectToCoordinator: ReceiveFD(conn).
CliReceive(w) ==
    /\ cli[w].pc = "receive"
    /\ IF socks[w].toCli # << >>
       THEN /\ socks' = [socks EXCEPT ![w].toCli = Tail(@)]
            /\ cli' = [cli EXCEPT
                         ![w].pc = "returned", ![w].ret = "ok",
                         ![w].fd = Head(socks[w].toCli).type = "fd"]
       ELSE /\ socks[w].srv = "closed"
            /\ cliFail(w)
    /\ UNCHANGED <<coClosed, listener, workers, cloned, acc, closePc, steps>>

AcceptWorker ==
    \/ AccCheck /\ UNCHANGED notCoord
    \/ AccAccept /\ UNCHANGED notCoord
    \/ AccDecode /\ UNCHANGED notCoord
    \/ AccClone /\ UNCHANGED notCoord
    \/ AccRefuse /\ UNCHANGED notCoord
    \/ AccRespond /\ UNCHANGED notCoord
    \/ AccSendFD /\ UNCHANGED notCoord
    \/ AccRegister /\ UNCHANGED notCoord

CoordinatorClose ==
    \/ CloseFlag /\ UNCHANGED notCoord
    \/ CloseWorkers /\ UNCHANGED notCoord
    \/ CloseListener /\ UNCHANGED notCoord

ConnectToCoordinator(w) ==
    \/ CliDial(w) /\ UNCHANGED notCoord
    \/ CliRegister(w) /\ UNCHANGED notCoord
    \/ CliResponse(w) /\ UNCHANGED notCoord
    \/ CliReceive(w) /\ UNCHANGED notCoord

\* A coordinator whose owner calls AcceptWorker in a loop and Close from
\* another goroutine, and the worker processes.
NextCoordinator ==
    \/ AcceptWorker
    \/ CoordinatorClose
    \/ \E w \in Clients : ConnectToCoordinator(w)

SpecCoordinator == Init /\ [][NextCoordinator]_vars

(***************************************************************************)
(* Properties of the coordinator's handoff.                                *)
(***************************************************************************)
\* The first n steps of the handoff.
HandoffPrefix(n) == SubSeq(Handoff, 1, n)

\* What AcceptWorker may have done on one connection: the handoff up to
\* some step, then possibly the close that follows a failed step; after a
\* failed clone at most the refusal, then the close.
HandoffRuns ==
    { HandoffPrefix(n) : n \in 0 .. Len(Handoff) }
    \cup { HandoffPrefix(n) \o <<"close">> : n \in 0 .. 3 }
    \cup { <<"read-reg", "clone-failed">>,
           <<"read-reg", "clone-failed", "close">>,
           <<"read-reg", "clone-failed", "write-refusal", "close">> }

\* The connections the pid table refers to.
Tracked == { workers[p] : p \in DOMAIN workers }

\* The messages the coordinator wrote on connection c and the worker
\* process has not read yet.
Unread(c) == { socks[c].toCli[k] : k \in DOMAIN socks[c].toCli }

\* The clone for connection c failed.
CloneFailed(c) ==
    \E k \in DOMAIN steps[c] : steps[c][k] = "clone-failed"

\* C29: on every connection the coordinator reads the registration, clones
\* the master descriptor, writes the response and sends the descriptor in
\* this order, and a worker is in the pid table only after all four, under
\* the pid it registered with.  After a failed clone the only response is
\* one with success = false and the error string, no descriptor is sent or
\* kept, the socket is closed once AcceptWorker has returned, the table
\* has no entry for the connection, and the worker process never receives
\* a descriptor: ConnectToCoordinator returns an error.
C29_HandoffProtocol ==
    \A c \in Clients :
      /\ steps[c] \in HandoffRuns
      /\ c \in Tracked => steps[c] = Handoff
      /\ \A p \in DOMAIN workers : workers[p] = c => cli[c].pid = p
      /\ CloneFailed(c) =>
           /\ cloned[c] = "none"
           /\ c \notin Tracked
           /\ \A m \in Unread(c) :
                m.type = "resp" /\ ~m.success /\ m.error # ""
           /\ acc.conn # c => socks[c].srv = "closed"
           /\ cli[c].pc # "receive"
           /\ ~cli[c].fd
           /\ cli[c].pc = "returned" => cli[c].ret = "error"

\* One worker went through the whole handoff and holds its descriptor
\* while it is in the pid table; the clone for the other one failed, the
\* refusal was written, and that worker's ConnectToCoordinator returned
\* an error.
C29_Witness ==
    \E c, d \in Clients :
      /\ steps[c] = Handoff
      /\ c \in Tracked
      /\ cli[c].ret = "ok"
      /\ cli[c].fd
      /\ steps[d] = <<"read-reg", "clone-failed", "write-refusal", "close">>
      /\ cli[d].pc = "returned"
      /\ cli[d].ret = "error"

\* C30: Close closes the socket and the cloned descriptor of every worker
\* of the pid table and leaves the table empty; once Close has returned the
\* listener is closed and the table has no worker, whatever AcceptWorker
\* does.
TableEmptyAfterClose ==
    closePc = "done" => listener = "closed" /\ DOMAIN workers = {}

ClosesTrackedWorkers ==
    closePc = "workers" /\ closePc' = "listener" =>
        /\ \A c \in Tracked :
             socks'[c].srv = "closed" /\ cloned'[c] = "closed"
        /\ DOMAIN workers' = {}

C30_CloseStopsCoordinator ==
    []TableEmptyAfterClose /\ [][ClosesTrackedWorkers]_vars

\* C31: once AcceptWorker and ConnectToCoordinator have both returned
\* successfully for a connection, its socket is closed on both ends.
C31_SocketClosedAfterHandoff ==
    \A c \in Clients :
      steps[c] = Handoff /\ cli[c].pc = "returned" /\ cli[c].ret = "ok" =>
          socks[c].srv = "closed" /\ socks[c].cli = "closed"

(***************************************************************************)
(* Teardown of a coordinator whose owner calls Close only between          *)
(* AcceptWorker calls, and RemoveWorker at any time.                       *)
(***************************************************************************)
\* RemoveWorker: delete the entry under workersMu, then Worker.Close() on
\* the worker it referred to.
RemoveWorker(pid) ==
    /\ pid \in DOMAIN workers
    /\ workers' = [p \in DOMAIN workers \ {pid} |-> workers[p]]
    /\ socks' = [socks EXCEPT ![workers[pid]].srv = "closed"]
    /\ cloned' = [cloned EXCEPT ![workers[pid]] = "closed"]
    /\ UNCHANGED <<coClosed, listener, acc, closePc, cli, steps>>

\* Close called while no AcceptWorker call is running.
CloseBetweenCalls ==
    \/ acc.pc = "idle" /\ CloseFlag /\ UNCHANGED notCoord
    \/ CloseWorkers /\ UNCHANGED notCoord
    \/ CloseListener /\ UNCHANGED notCoord

NextTeardown ==
    \/ AcceptWorker
    \/ CloseBetweenCalls
    \/ \E pid \in WorkerPids : RemoveWorker(pid) /\ UNCHANGED notCoord
    \/ \E w \in Clients : ConnectToCoordinator(w)

SpecTeardown == Init /\ [][NextTeardown]_vars

\* C37: after AcceptWorker calls followed by Close, no descriptor the
\* coordinator cloned and no socket it accepted is still open.
C37_NothingLeftOpen ==
    closePc = "done" /\ acc.pc = "idle" =>
        \A c \in Clients : cloned[c] # "open" /\ socks[c].srv # "open"

\* C38: once an AcceptWorker call and a concurrent Close have both
\* returned, the table is empty and the socket and the clone of the
\* connection the call handled are closed.
C38_NoRegistrationIntoClosed ==
    closePc = "done" /\ acc.pc = "idle" =>
        /\ Tracked = {}
        /\ \A c \in Clients :
             steps[c] # << >> =>
                 cloned[c] # "open" /\ socks[c].srv = "closed"

(***************************************************************************)
(* sharing.CloneFuseFD and sharing.CloneMultiple.  A descriptor is named   *)
(* by the call that opened it and its rank among that call's opens.        *)
(***************************************************************************)
MutCloneIoctlFailedKeeps(open, clone) == open

\* CloneFuseFD after the FUSE_DEV_IOC_CLONE ioctl failed:
\* syscall.Close(cloneFd).
cloneIoctlFailed(open, clone) == open \ {clone}

\* The descriptors of a sequence.
FdsOf(fds) == { fds[k] : k \in DOMAIN fds }

\* CloneMultiple(masterFd, count) is called: fds := make([]int, 0, count).
CmCall(t) ==
    /\ cm[t].pc = "idle"
    /\ cm[t].ret = "none"
    /\ \E count \in 0 .. MaxClones :
         cm' = [cm EXCEPT ![t].pc = "loop", ![t].count = count]
    /\ UNCHANGED openFds

\* The loop test i < count, and the return of fds after the last clone.
CmLoop(t) ==
    /\ cm[t].pc = "loop"
    /\ cm' = IF Len(cm[t].fds) < cm[t].count
             THEN [cm EXCEPT ![t].pc = "open"]
             ELSE [cm EXCEPT ![t].pc = "idle", ![t].ret = "ok"]
    /\ UNCHANGED openFds

\* CloneFuseFD: syscall.Open("/dev/fuse"), which may fail.
CmOpen(t) ==
    /\ cm[t].pc = "open"
    /\ \E ok \in BOOLEAN :
         IF ok
         THEN LET clone == <<t, cm[t].opened + 1>>
              IN  /\ openFds' = openFds \cup {clone}
                  /\ cm' = [cm EXCEPT ![t].pc = "ioctl", ![t].cur = clone,
                                      ![t].opened = @ + 1]
         ELSE /\ cm' = [cm EXCEPT ![t].pc = "cleanup"]
              /\ UNCHANGED openFds

\* CloneFuseFD: the clone ioctl, which may fail; on success CloneMultiple
\* appends the descriptor.
CmIoctl(t) ==
    /\ cm[t].pc = "ioctl"
    /\ \E ok \in BOOLEAN :
         IF ok
         THEN /\ cm' = [cm EXCEPT ![t].pc = "loop", ![t].cur = 0,
                                  ![t].fds = Append(@, cm[t].cur)]
              /\ UNCHANGED openFds
         ELSE /\ openFds' = cloneIoctlFailed(openFds, cm[t].cur)
              /\ cm' = [cm EXCEPT ![t].pc = "cleanup", ![t].cur = 0]

\* CloneMultiple after CloneFuseFD failed: close every descriptor of fds
\* and return nil and the error.
CmCleanup(t) ==
    /\ cm[t].pc = "cleanup"
    /\ openFds' = openFds \ FdsOf(cm[t].fds)
    /\ cm' = [cm EXCEPT ![t].pc = "idle", ![t].fds = << >>,
                        ![t].ret = "error"]

CloneMultiple(t) ==
    \/ CmCall(t) /\ UNCHANGED notClone
    \/ CmLoop(t) /\ UNCHANGED notClone
    \/ CmOpen(t) /\ UNCHANGED notClone
    \/ CmIoctl(t) /\ UNCHANGED notClone
    \/ CmCleanup(t) /\ UNCHANGED notClone

NextClone == \E t \in CloneCallers : CloneMultiple(t)

SpecClone == Init /\ [][NextClone]_vars

\* The descriptors call t opened that are still open.
OpenOf(t) == { f \in openFds : f[1] = t }

\* C34: a CloneMultiple call that returned without error returned exactly
\* count descriptors, all different and all open; one that returned an
\* error returned no descriptor and none of the descriptors it opened,
\* the one whose ioctl failed included, is still open.
C34_AllOrNothing ==
    \A t \in CloneCallers :
      /\ cm[t].ret = "ok" =>
           /\ Len(cm[t].fds) = cm[t].count
           /\ Cardinality(FdsOf(cm[t].fds)) = cm[t].count
           /\ OpenOf(t) = FdsOf(cm[t].fds)
      /\ cm[t].ret = "error" =>
           /\ cm[t].fds = << >>
           /\ OpenOf(t) = {}

\* A call for the largest count failed in the ioctl of its last clone,
\* after it had opened that many descriptors, and has returned the error;
\* the other call returned its descriptors.
C34_Witness ==
    \E t, u \in CloneCallers :
      /\ cm[t].ret = "error"
      /\ cm[t].count = MaxClones
      /\ cm[t].opened = MaxClones
      /\ cm[u].ret = "ok"
      /\ cm[u].count = MaxClones

(***************************************************************************)
(* handleLookup: from the request and what Filesystem.Lookup returns to    *)
(* the call's arguments and the frame handed to writeResponse.  A body is  *)
(* the sequence of its bytes.                                              *)
(***************************************************************************)
MutFilenameWholeBody(body) == body

\* request.filename: the body up to its first NUL byte, the whole body if
\* it has none, "" for a request without body.
RECURSIVE filename(_)
filename(body) ==
    IF body = << >> THEN << >>
    ELSE IF Head(body) = 0 THEN << >>
    ELSE <<Head(body)>> \o filename(Tail(body))

\* entryToProto: the EntryOut fields taken from the Entry.
entryToProto(entry) ==
    [NodeID |-> entry.Ino,
     Generation |-> entry.Generation,
     EntryValid |-> durationToTimespec(entry.EntryTimeout).sec,
     EntryValidNsec |-> durationToTimespec(entry.EntryTimeout).nsec,
     AttrValid |-> durationToTimespec(entry.AttrTimeout).sec,
     AttrValidNsec |-> durationToTimespec(entry.AttrTimeout).nsec]

\* The zero EntryOut of a frame without payload.
NoEntryOut ==
    [NodeID |-> 0, Generation |-> 0, EntryValid |-> 0, EntryValidNsec |-> 0,
     AttrValid |-> 0, AttrValidNsec |-> 0]

\* handleLookup: the arguments of s.fs.Lookup, and for the value it
\* returned the frame the handler (or handleRequest, for an error) sends.
handleLookup(req, res) ==
    [parent |-> req.nodeid,
     name |-> filename(req.body),
     frame |-> IF res.err # NoErr
               THEN sendError(req, res.err)
               ELSE sendResponse(req, EntryOutSize),
     entry |-> IF res.err # NoErr THEN NoEntryOut
               ELSE entryToProto(res.entry)]

\* Bodies of LOOKUP requests: up to three bytes out of NUL, 'a' and 'b'.
RECURSIVE Bodies(_)
Bodies(n) ==
    IF n = 0 THEN {<< >>}
    ELSE Bodies(n - 1)
         \cup { Append(b, c) : b \in { x \in Bodies(n - 1) : Len(x) = n - 1 },
                               c \in {0, 97, 98} }

LookupRequests ==
    { [opcode |-> OpLookup, unique |-> KernelUnique(1), nodeid |-> ino,
       body |-> b] : ino \in {1, 7}, b \in Bodies(3) }

\* What Filesystem.Lookup returns: an Entry or an error.
LookupResults ==
    { [err |-> NoErr,
       entry |-> [Ino |-> 9, Generation |-> 3, EntryTimeout |-> et,
                  AttrTimeout |-> at]] :
        et \in {0, Second + Second \div 2}, at \in {Second - 1, 2 * Second} }
    \cup { [err |-> e, entry |-> << >>] : e \in {Errno(ENOENT), Errno(EACCES)} }

\* A LOOKUP request is handled.
Lookup ==
    /\ \E req \in LookupRequests, res \in LookupResults :
         conv' = [fn |-> "handleLookup", arg |-> [req |-> req, res |-> res],
                  out |-> handleLookup(req, res)]
    /\ UNCHANGED <<progVars, notConv>>

\* LOOKUP requests, with the conversions their replies are built from.
NextLookup ==
    \/ Lookup
    \/ ConvertDuration

SpecLookup == Init /\ [][NextLookup]_vars

\* s is the part of body before its first NUL byte, or all of it.
BeforeFirstNul(s, body) ==
    /\ Len(s) <= Len(body)
    /\ \A k \in 1 .. Len(s) : s[k] = body[k] /\ s[k] # 0
    /\ Len(s) < Len(body) => body[Len(s) + 1] = 0

\* C32: LOOKUP calls Lookup with the header's node id as parent and the
\* body bytes before the first NUL (the whole body without NUL, the empty
\* name for an empty body) as name.  On success the reply is a 144-byte
\* frame with error 0 and the request's unique whose EntryOut has the
\* returned inode and generation and each timeout as whole seconds plus
\* nanoseconds below one second; on an error it is the 16-byte frame with
\* the negated errno.
C32_LookupReply ==
    conv.fn = "handleLookup" =>
      LET req == conv.arg.req
          res == conv.arg.res
          out == conv.out
      IN  /\ out.parent = req.nodeid
          /\ BeforeFirstNul(out.name, req.body)
          /\ req.body = << >> => out.name = << >>
          /\ out.frame.unique = req.unique
          /\ res.err = NoErr =>
               /\ out.frame.len = 144
               /\ out.frame.nbytes = OutHeaderSize + EntryOutSize
               /\ out.frame.nbytes = 144
               /\ out.frame.error = 0
               /\ out.entry.NodeID = res.entry.Ino
               /\ out.entry.Generation = res.entry.Generation
               /\ out.entry.EntryValidNsec < Second
               /\ out.entry.AttrValidNsec < Second
               /\ out.entry.EntryValid * Second + out.entry.EntryValidNsec
                    = res.entry.EntryTimeout
               /\ out.entry.AttrValid * Second + out.entry.AttrValidNsec
                    = res.entry.AttrTimeout
          /\ res.err # NoErr =>
               /\ out.frame.len = OutHeaderSize
               /\ out.frame.nbytes = OutHeaderSize
               /\ out.frame.error = 0 - res.err.no

\* A LOOKUP whose body is 'a', NUL, 'b' called Lookup with the name "a"
\* and was answered with the entry, its entry timeout of one and a half
\* seconds sent as (1, 500000000).
C32_Witness ==
    /\ conv.fn = "handleLookup"
    /\ conv.arg.req.body = <<97, 0, 98>>
    /\ conv.out.name = <<97>>
    /\ conv.arg.res.err = NoErr
    /\ conv.out.frame.len = 144
    /\ conv.out.entry.EntryValid = 1
    /\ conv.out.entry.EntryValidNsec = Second \div 2

(***************************************************************************)
(* handleRead: from the request and what Filesystem.Read returns to the    *)
(* frame handed to writeResponse, with the bytes of its payload.           *)
(***************************************************************************)
MutResponseBytesNoCopy(payload) == [k \in 1 .. Len(payload) |-> 0]

\* sendResponse: the payload area of newResponse(req, len(payload)),
\* zeroed by make, after copy(resp.payload(), payload).
responseBytes(payload) == [k \in 1 .. Len(payload) |-> payload[k]]

\* handleRead: the size passed to s.fs.Read, and for the value it returned
\* the frame sent and the bytes behind its header.
handleRead(req, res) ==
    [size |-> req.size,
     frame |-> IF res.err # NoErr
               THEN sendError(req, res.err)
               ELSE sendResponse(req, Len(res.data)),
     data |-> IF res.err # NoErr THEN << >> ELSE responseBytes(res.data)]

\* READ requests with a complete ReadIn.
ReadRequests ==
    { [opcode |-> OpRead, unique |-> KernelUnique(1), nodeid |-> 7,
       size |-> sz] : sz \in {0, 2, 3, 4} }

\* What Filesystem.Read returns: up to three bytes, or an error.  Nothing
\* in the interface ties the length to the size asked for.
ReadResults ==
    { [err |-> NoErr, data |-> d] : d \in Bodies(3) }
    \cup { [err |-> e, data |-> << >>] : e \in {Errno(EIO)} }

\* A READ request is handled.
Read ==
    /\ \E req \in ReadRequests, res \in ReadResults :
         conv' = [fn |-> "handleRead", arg |-> [req |-> req, res |-> res],
                  out |-> handleRead(req, res)]
    /\ UNCHANGED <<progVars, notConv>>

NextRead ==
    \/ Read
    \/ ConvertDuration

SpecRead == Init /\ [][NextRead]_vars

\* C33: when Read returns bytes without error, the reply is a success
\* frame of 16 bytes plus the number of bytes returned whose payload is
\* those bytes; for no bytes it is the 16-byte frame with error 0.
C33_ReadReply ==
    conv.fn = "handleRead" /\ conv.arg.res.err = NoErr =>
      LET data == conv.arg.res.data
          out == conv.out
      IN  /\ out.frame.error = 0
          /\ out.frame.unique = conv.arg.req.unique
          /\ out.frame.len = OutHeaderSize + Len(data)
          /\ out.frame.nbytes = 16 + Len(data)
          /\ out.data = data
          /\ data = << >> => out.frame.len = 16 /\ out.frame.nbytes = 16

\* A READ of size 4 for which Read returned the two bytes 'a', 'b' was
\* answered with an 18-byte success frame carrying them.
C33_Witness ==
    /\ conv.fn = "handleRead"
    /\ conv.arg.req.size = 4
    /\ conv.arg.res.err = NoErr
    /\ conv.arg.res.data = <<97, 98>>
    /\ conv.out.frame.len = 18
    /\ conv.out.data = <<97, 98>>

\* C39: the payload of a READ reply is never longer than the size the
\* kernel asked for.
C39_ReplyWithinSize ==
    conv.fn = "handleRead" =>
        /\ Len(conv.out.data) <= conv.arg.req.size
        /\ conv.out.frame.nbytes - OutHeaderSize <= conv.arg.req.size

\* C35: with Unmount called from another task, Serve never returns the
\* context's cancellation error nor the error of a read on a closed
\* descriptor.
C35_ServeReturnsNil ==
    servePc = "returned" /\ (\E u \in UnmountCallers : um[u] # "idle") =>
        serveRet \notin {"canceled", "EBADF"}

\* C36: the negotiated version and the Config snapshot are set only by an
\* INIT that ends with the server marked initialized: while no request is
\* being handled and the server is not initialized, they have the values
\* Mount gave them.
C36_FailedInitLeavesState ==
    ~initialized /\ ~crashed /\ (\A i \in DOMAIN reqs : reqs[i].pc = "done") =>
        protoMajor = 0 /\ protoMinor = 0 /\ config = NoConfig

(***************************************************************************)
(* The whole server under fair scheduling.                                 *)
(***************************************************************************)
\* The Go scheduler runs every runnable goroutine, sync.Mutex hands the
\* lock to a goroutine that keeps waiting for it, every Filesystem method
\* returns, and a Wait whose counter stays zero returns.  Nothing is
\* assumed of the kernel or of Serve.
Fairness ==
    /\ \A i \in 1 .. MaxLive : SF_vars(Worker(i))
    /\ WF_vars(WaitReturn /\ UNCHANGED auxVars)

\* GETATTR and FORGET requests, a request that is answered and one that is
\* not, with every body length readRequest accepts.
LiveRequests == KernelRequests({OpGetattr, OpForget})

\* The read loop, its workers and a Wait caller; the kernel keeps up to
\* two requests outstanding and may end the session at any time.
NextLive ==
    \/ ServeCheck /\ UNCHANGED auxVars
    \/ ServeIssueRead /\ UNCHANGED auxVars
    \/ ServeRead(LiveRequests, MaxLive, 2) /\ UNCHANGED auxVars
    \/ DeviceGone /\ UNCHANGED auxVars
    \/ \E i \in 1 .. MaxLive : Worker(i)
    \/ WaitCall /\ UNCHANGED auxVars
    \/ WaitReturn /\ UNCHANGED auxVars

SpecFair == Init /\ [][NextLive]_vars /\ Fairness

\* Worker i called syscall.Write with its reply.
Written(i) == \E k \in DOMAIN dev : dev[k].by = i

\* Request i was read, its worker has finished, and unless its opcode is
\* FORGET, BATCH_FORGET or INTERRUPT its reply went to the device write.
Served(i) ==
    /\ i \in DOMAIN reqs
    /\ reqs[i].pc = "done"
    /\ reqs[i].opcode \notin {OpForget, OpBatchForget, OpInterrupt} =>
          Written(i)

\* C40: under fair scheduling every request that was read and whose opcode
\* is not FORGET, BATCH_FORGET or INTERRUPT eventually has its reply
\* passed to the device write, every request's worker eventually finishes,
\* and a Wait in progress once Serve has returned eventually returns.
C40_Liveness ==
    /\ \A i \in 1 .. MaxLive : (i \in DOMAIN reqs) ~> Served(i)
    /\ (servePc = "returned" /\ waitPc = "waiting") ~> (waitPc = "returned")

=============================================================================
